---- MODULE Spec2Model ----
(***************************************************************************)
(* A model of the bugwars game server core (website/axum):                 *)
(*   - game/environment.rs : EnvironmentManager (objects, chunk index,     *)
(*     per-player interest sets, harvest, respawn task)                    *)
(*   - auth/jwt_cache.rs   : JwtCache (token cache, eviction, manager)     *)
(*   - transports/https.rs : ws_upgrade / ws_loop (session handshake)      *)
(*                                                                         *)
(* Each subsystem has its own specification over its own variables; the    *)
(* variables of the other subsystems stay at their initial value.          *)
(*   Spec          : harvest requests and the respawn task                 *)
(*   InterestSpec  : interest queries beside harvests and respawns         *)
(*   CacheSpec     : two callers of verify_and_cache beside run_manager    *)
(*   CacheFairSpec : CacheSpec with run_manager taking its steps           *)
(*   SessionSpec   : two websocket handshakes and their sessions           *)
(***************************************************************************)
EXTENDS Integers, Sequences, FiniteSets, TLC

(* ----------------------------- bounds ---------------------------------- *)

\* The wall clock (unix seconds) runs 0..MaxTime.
MaxTime == 2

\* The ids add_object may push on the vector of one chunk.
MaxIndexed == 3

\* The generate_chunk / generate_area calls of a behaviour.
MaxCalls == 3

\* MAX_CACHE_SIZE of the token cache, scaled down from the program's 10_000
\* to a size whose tenth is not a whole number.
MAX_CACHE_SIZE == 11

\* The verifications a behaviour may add to those of its initial cache, each
\* with its own reading of the monotonic clock (Instant::now).
MaxInstant == 3

\* The frames one connection may receive.
MaxFrames == 1

\* The largest quantity of an inventory slot: u32::MAX of the program, scaled
\* down; a sum beyond it overflows.
QuantityMax == 3

(* ------------------------ program constants ---------------------------- *)

\* EnvironmentManager::new(50.0, 3, 10.0) in main.
ChunkSize == 50
ViewDistanceChunks == 3
MaxHarvestRange == 10

(* ------------------------------ Option --------------------------------- *)

\* Option<T>: None is the empty sequence, Some(v) the one-element sequence.
None == <<>>
Some(v) == <<v>>
IsSome(o) == Len(o) = 1
Unwrap(o) == o[1]

(* --------------------------- environment ------------------------------- *)

VARIABLES
    now,            \* unix_time_secs()
    objects,        \* EnvironmentManager.objects : object_id -> EnvironmentObject
    chunk_objects,  \* EnvironmentManager.chunk_objects : ChunkCoord -> Vec<object_id>
    player_chunks,  \* EnvironmentManager.player_chunks : player_id -> HashSet<ChunkCoord>
    hres,           \* the HarvestObjectResponse of the last handle_harvest_request
    rd,             \* per session task: the interest query it is running
    hsince,         \* per session task: ids harvested ever since its query began
    sched           \* the respawn task: its position, ids scanned and ids to respawn

envVars == <<now, objects, chunk_objects, player_chunks, hres, rd, hsince, sched>>

\* The environment registry without the clock.
envRest == <<objects, chunk_objects, player_chunks, hres, rd, hsince, sched>>

VARIABLES
    tokens,     \* JwtCache.tokens: token -> TokenInfo
    instant,    \* the last reading of the monotonic clock
    th,         \* per caller: the position of its verify_and_cache call
    mgr,        \* the position of run_manager, and what its last tick did
    conn,       \* per caller: its websocket connection
    server      \* main: "running" until its select! returns

cacheVars == <<tokens, instant, th, mgr>>
sessVars == <<conn, server>>

VARIABLES
    mw          \* per caller: what auth_middleware answered its last request

authVars == <<mw>>

VARIABLES
    entities,   \* EntityStateManager.entities : entity_id -> EntityState
    sweep,      \* run_cleanup_task: its position and the ids it collected
    eres        \* what the last call on the registry returned and warned of

entVars == <<entities, sweep, eres>>

VARIABLES
    made        \* the generate_chunk / generate_area calls that have returned

genVars == <<made>>

VARIABLES
    adding      \* the add_object call between its two writes, if any

addVars == <<adding>>

vars == <<envVars, cacheVars, sessVars, authVars, entVars, genVars, addVars>>

Players == {"p1", "p2"}
Tasks == {"t1"}

Pos(x, y, z) == [x |-> x, y |-> y, z |-> z]

\* Position::distance_to, squared (the code takes the square root of this sum).
DistanceSq(a, b) ==
    LET dx == a.x - b.x
        dy == a.y - b.y
        dz == a.z - b.z
    IN  dx * dx + dy * dy + dz * dz

\* TooFar with the height difference left out of the distance.
TooFarPlanar(objPos, playerPos) ==
    (objPos.x - playerPos.x) * (objPos.x - playerPos.x)
      + (objPos.z - playerPos.z) * (objPos.z - playerPos.z)
        > MaxHarvestRange * MaxHarvestRange

\* TooFar with the comparison `>=` instead of `>`.
TooFarInclusive(objPos, playerPos) ==
    DistanceSq(objPos, playerPos) >= MaxHarvestRange * MaxHarvestRange

\* `distance > max_harvest_range` on the square root of DistanceSq: for the
\* integer coordinates of the model sqrt(d2) > r  iff  d2 > r*r.
TooFar(objPos, playerPos) ==
    DistanceSq(objPos, playerPos) > MaxHarvestRange * MaxHarvestRange

\* The integer square root of n, searched between lo and hi (lo*lo <= n < hi*hi).
RECURSIVE ISqrtIn(_, _, _)
ISqrtIn(n, lo, hi) ==
    IF hi - lo <= 1 THEN lo
    ELSE LET mid == (lo + hi) \div 2
         IN  IF mid * mid <= n THEN ISqrtIn(n, mid, hi) ELSE ISqrtIn(n, lo, mid)

\* The least h, h doubled from its first value, with h * h > n.
RECURSIVE Above(_, _)
Above(n, h) == IF h * h > n THEN h ELSE Above(n, 2 * h)

\* format!("{:.1}", sqrt(d2)) in tenths: the t with t/10 nearest to sqrt(d2),
\* which is floor((sqrt(400 * d2) + 1) / 2).
Tenths(d2) == (ISqrtIn(400 * d2, 0, Above(400 * d2, 1)) + 1) \div 2

\* from_position with `as i32` on the quotient, without the floor(): the
\* cast rounds toward zero.
FromPositionTrunc(p, chunk_size) ==
    LET trunc(v) == IF v < 0 THEN 0 - ((0 - v) \div chunk_size) ELSE v \div chunk_size
    IN  <<trunc(p.x), trunc(p.z)>>

\* ChunkCoord::from_position: floor(x / chunk_size), floor(z / chunk_size).
FromPosition(p, chunk_size) == <<p.x \div chunk_size, p.z \div chunk_size>>

\* ChunkCoord::neighbors: dx outer loop, dz inner loop, both -radius..=radius.
Neighbors(c, radius) ==
    LET w == 2 * radius + 1
    IN  [i \in 1..(w * w) |->
            <<c[1] + ((i - 1) \div w) - radius, c[2] + ((i - 1) % w) - radius>>]

Range(s) == {s[i] : i \in 1..Len(s)}

\* EnvironmentManager::get_nearby_chunks
GetNearbyChunks(position) ==
    Neighbors(FromPosition(position, ChunkSize), ViewDistanceChunks)

\* The objects main() adds at startup, two of what generate_area(spawn, 5)
\* returns for the chunks -5..5: a grass patch in chunk (0,0) and a rock in
\* chunk (5,0). The clock counts minutes, so the grass's respawn time of 120
\* seconds is 2 and the rock's 600 seconds is 10.
World ==
    << [object_id |-> "grass_0_0_idx_0", position |-> Pos(25, 0, 25),
        resource_type |-> "Herbs", resource_amount |-> 1,
        is_harvested |-> FALSE, harvested_at |-> None,
        respawn_time_seconds |-> Some(2)],
       [object_id |-> "rock_5_0_idx_0", position |-> Pos(275, 0, 25),
        resource_type |-> "Stone", resource_amount |-> 3,
        is_harvested |-> FALSE, harvested_at |-> None,
        respawn_time_seconds |-> Some(10)] >>

\* A registry seen three minutes after a wave of harvests, the clock in
\* seconds: a bush (respawn 180) harvested at 0, a tree (respawn 300)
\* harvested at 0, a grass patch (respawn 120) harvested at 61, an object
\* added without a respawn time and harvested at 0, and the world's grass
\* patch, not harvested.
DueWorld ==
    << [World[1] EXCEPT !.object_id = "bush_0_0_idx_0", !.resource_type = "Berries",
                        !.is_harvested = TRUE, !.harvested_at = Some(0),
                        !.respawn_time_seconds = Some(180)],
       [World[1] EXCEPT !.object_id = "tree_0_0_idx_0", !.resource_type = "Wood",
                        !.is_harvested = TRUE, !.harvested_at = Some(0),
                        !.respawn_time_seconds = Some(300)],
       [World[1] EXCEPT !.object_id = "grass_0_0_idx_1",
                        !.is_harvested = TRUE, !.harvested_at = Some(61),
                        !.respawn_time_seconds = Some(120)],
       [World[1] EXCEPT !.object_id = "relic_0_0_idx_0", !.resource_type = "None",
                        !.is_harvested = TRUE, !.harvested_at = Some(0),
                        !.respawn_time_seconds = None],
       [World[1] EXCEPT !.respawn_time_seconds = Some(120)] >>

ObjectIds == {World[i].object_id : i \in 1..Len(World)}

\* An id no object has.
UnknownId == "tree_9_9_idx_0"

\* Where a harvesting player may claim to stand: at distance exactly 10 of the
\* grass (along x, and with a y offset: 8,6,0), at sqrt(113) of it (too far by
\* its y alone), at (5,0,5) (28.28 away), and 5 away from the rock.
HarvestPositions ==
    { Pos(15, 0, 25), Pos(17, 6, 25), Pos(17, 7, 25), Pos(5, 0, 5), Pos(275, 0, 30) }

\* The positions within range of an object, for the harvests that run beside
\* interest queries.
NearPositions == { Pos(15, 0, 25), Pos(275, 0, 30) }

\* Where a player may stand when an interest query runs: from chunk (1,0)
\* the chunks x in -2..4 are visible (the grass's), from chunk (4,0) the
\* chunks x in 1..7 (the rock's).
InterestPositions == { Pos(50, 0, 0), Pos(200, 0, 0) }

\* Where a moving player may stand: in the chunks (0,0), (1,0) and (2,0),
\* one step along +x apart (the rock's chunk (5,0) enters on the second
\* step), and at negative coordinates in chunk (-1,-1), from where the
\* grass's chunk is visible and the rock's is not.
MovePositions == { Pos(25, 0, 25), Pos(75, 0, 25), Pos(125, 0, 25), Pos(0 - 1, 0, 0 - 1) }

\* EnvironmentObject::to_network_data: the server-only fields are dropped.
ToNetworkData(o) ==
    [object_id |-> o.object_id, position |-> o.position,
     resource_type |-> o.resource_type, resource_amount |-> o.resource_amount]

\* mark_harvested that also empties the object's resources.
MarkHarvestedAndDrain(o, t) ==
    [o EXCEPT !.is_harvested = TRUE, !.harvested_at = Some(t), !.resource_amount = 0]

\* mark_harvested that sets the flag and leaves the timestamp.
MarkFlagOnly(o, t) == [o EXCEPT !.is_harvested = TRUE]

\* EnvironmentObject::mark_harvested
MarkHarvested(o, t) == [o EXCEPT !.is_harvested = TRUE, !.harvested_at = Some(t)]

\* respawn that clears the flag and leaves the timestamp.
RespawnFlagOnly(o) == [o EXCEPT !.is_harvested = FALSE]

\* EnvironmentObject::respawn
RespawnFields(o) == [o EXCEPT !.is_harvested = FALSE, !.harvested_at = None]

\* should_respawn with `elapsed > respawn_time`.
ShouldRespawnStrict(o, t) ==
    /\ o.is_harvested
    /\ IsSome(o.harvested_at) /\ IsSome(o.respawn_time_seconds)
    /\ (t - Unwrap(o.harvested_at)) > Unwrap(o.respawn_time_seconds)

\* should_respawn that holds for every harvested object.
ShouldRespawnAtOnce(o, t) == o.is_harvested

\* EnvironmentObject::should_respawn at clock t.
ShouldRespawn(o, t) ==
    IF ~o.is_harvested THEN FALSE
    ELSE IF IsSome(o.harvested_at) /\ IsSome(o.respawn_time_seconds)
         THEN (t - Unwrap(o.harvested_at)) >= Unwrap(o.respawn_time_seconds)
         ELSE FALSE

\* EnvironmentManager::add_object on the two maps, as a function of them:
\* insert into objects (replacing), then push the id on the chunk's vector.
AddToObjects(objs, o) ==
    [k \in DOMAIN objs \cup {o.object_id} |-> IF k = o.object_id THEN o ELSE objs[k]]

AddToIndex(idx, o) ==
    LET c == FromPosition(o.position, ChunkSize)
    IN  [k \in DOMAIN idx \cup {c} |->
            IF k = c
            THEN (IF c \in DOMAIN idx THEN idx[c] ELSE <<>>) \o <<o.object_id>>
            ELSE idx[k]]

RECURSIVE AddAllObjects(_, _)
AddAllObjects(objs, n) ==
    IF n = 0 THEN objs
    ELSE AddToObjects(AddAllObjects(objs, n - 1), World[n])

RECURSIVE AddAllIndex(_, _)
AddAllIndex(idx, n) ==
    IF n = 0 THEN idx
    ELSE AddToIndex(AddAllIndex(idx, n - 1), World[n])

\* The chunks that ever hold an index entry. A query's read of any other
\* chunk finds nothing and changes nothing, so the model's queries visit only
\* these, in the order the code visits them.
TrackedChunks == {FromPosition(World[i].position, ChunkSize) : i \in 1..Len(World)}

Tracked(chunkSeq) == SelectSeq(chunkSeq, LAMBDA c : c \in TrackedChunks)

\* Every order in which a HashSet's iterator may yield the elements of S.
Orders(S) ==
    {s \in [1..Cardinality(S) -> S] : \A i, j \in 1..Cardinality(S) : i # j => s[i] # s[j]}

IdleQuery ==
    [pc |-> "idle", op |-> "none", player |-> "none", position |-> Pos(0, 0, 0),
     new |-> {}, old |-> {}, todo |-> <<>>, ids |-> <<>>,
     has_spawn |-> FALSE, spawn |-> <<>>, has_despawn |-> FALSE, despawn |-> <<>>]

IdleSched == [pc |-> "sleep", seen |-> {}, ids |-> <<>>]

NoResponse == [success |-> FALSE, object_id |-> "none", player_id |-> "none",
               resource_type |-> "None", resource_amount |-> 0,
               error_message |-> None, request_position |-> Pos(0, 0, 0)]

EnvInit ==
    /\ now = 0
    /\ objects = AddAllObjects(<<>>, Len(World))
    /\ chunk_objects = AddAllIndex(<<>>, Len(World))
    /\ player_chunks = <<>>
    /\ hres = NoResponse
    /\ rd = [t \in Tasks |-> IdleQuery]
    /\ hsince = [t \in Tasks |-> {}]
    /\ sched = IdleSched

HarvestedIds == {id \in DOMAIN objects : objects[id].is_harvested}

(* unix_time_secs() advances. *)
Tick ==
    /\ now < MaxTime
    /\ now' = now + 1
    /\ UNCHANGED <<envRest, cacheVars, sessVars, authVars, genVars, addVars, entVars>>

\* handle_harvest_request without its is_harvested check.
HarvestResponseUnchecked(objs, player_id, object_id, player_position) ==
    LET fail(msg) ==
            [success |-> FALSE, object_id |-> object_id, player_id |-> player_id,
             resource_type |-> "None", resource_amount |-> 0,
             error_message |-> Some(msg), request_position |-> player_position]
    IN  IF object_id \notin DOMAIN objs
        THEN fail(<<"Object not found">>)
        ELSE IF TooFar(objs[object_id].position, player_position)
        THEN fail(<<"Too far",
                    Tenths(DistanceSq(objs[object_id].position, player_position)),
                    10 * MaxHarvestRange>>)
        ELSE [success |-> TRUE, object_id |-> object_id, player_id |-> player_id,
              resource_type |-> objs[object_id].resource_type,
              resource_amount |-> objs[object_id].resource_amount,
              error_message |-> None, request_position |-> player_position]

\* The response of handle_harvest_request(player_id, {object_id, player_position})
\* on the registry `objs`; the request position is kept beside it.
HarvestResponse(objs, player_id, object_id, player_position) ==
    LET fail(msg) ==
            [success |-> FALSE, object_id |-> object_id, player_id |-> player_id,
             resource_type |-> "None", resource_amount |-> 0,
             error_message |-> Some(msg), request_position |-> player_position]
    IN  IF object_id \notin DOMAIN objs
        THEN fail(<<"Object not found">>)
        ELSE IF objs[object_id].is_harvested
        THEN fail(<<"Already harvested">>)
        ELSE IF TooFar(objs[object_id].position, player_position)
        THEN fail(<<"Too far",
                    Tenths(DistanceSq(objs[object_id].position, player_position)),
                    10 * MaxHarvestRange>>)
        ELSE [success |-> TRUE, object_id |-> object_id, player_id |-> player_id,
              resource_type |-> objs[object_id].resource_type,
              resource_amount |-> objs[object_id].resource_amount,
              error_message |-> None, request_position |-> player_position]

(* EnvironmentManager::handle_harvest_request. The entry's write guard is   *)
(* held from get_mut to the return, so the whole request is one step.       *)
HandleHarvestRequest(player_id, object_id, player_position) ==
    LET resp == HarvestResponse(objects, player_id, object_id, player_position)
    IN  /\ hres' = resp
        /\ objects' = IF resp.success
                      THEN [objects EXCEPT ![object_id] = MarkHarvested(@, now)]
                      ELSE objects
        /\ UNCHANGED <<cacheVars, sessVars, authVars, genVars, addVars, entVars, now, chunk_objects, player_chunks, rd, hsince, sched>>

\* PushIfActive without the is_harvested test.
PushAlways(out, objs, id) ==
    IF id \in DOMAIN objs THEN Append(out, ToNetworkData(objs[id])) ELSE out

\* EnvironmentManager::get_objects_in_chunks_network, its body for one id:
\* the object is pushed when it is in `objects` and not harvested.
PushIfActive(out, objs, id) ==
    IF id \in DOMAIN objs /\ ~objs[id].is_harvested
    THEN Append(out, ToNetworkData(objs[id]))
    ELSE out

\* After the last id of a chunk (or a chunk with no ids): the next chunk, or
\* the end of get_objects_in_chunks_network.
AfterChunk(q) ==
    IF Len(q.todo) > 1 THEN [q EXCEPT !.todo = Tail(@), !.ids = <<>>, !.pc = "chunk"]
    ELSE [q EXCEPT !.todo = <<>>, !.ids = <<>>,
                   !.pc = IF q.op = "initial" THEN "store" ELSE "despawn"]

\* StartDespawn without the test of exit_chunks.is_empty(): a despawn
\* message is built whatever the exit chunks are.
StartDespawnAlways(q) ==
    {[q EXCEPT !.pc = IF Len(s) = 0 THEN "done" ELSE "exit",
               !.todo = s, !.has_despawn = TRUE]
        : s \in Orders((q.old \ q.new) \cap TrackedChunks)}

\* The exit chunks still to read for the despawn message, or the end.
StartDespawn(q) ==
    LET exit == q.old \ q.new
    IN  IF exit = {} THEN {[q EXCEPT !.pc = "done", !.todo = <<>>]}
        ELSE {[q EXCEPT !.pc = IF Len(s) = 0 THEN "done" ELSE "exit",
                        !.todo = s, !.has_despawn = TRUE]
                : s \in Orders(exit \cap TrackedChunks)}

(* send_initial_objects, first half: get_nearby_chunks, and the start of    *)
(* get_objects_in_chunks_network over them.                                 *)
InitialBegin(t, player_id, position) ==
    /\ rd[t].pc \in {"idle", "done"}
    /\ LET chunks == GetNearbyChunks(position)
           q == [IdleQuery EXCEPT !.op = "initial", !.player = player_id,
                                  !.position = position, !.new = Range(chunks),
                                  !.todo = Tracked(chunks), !.has_spawn = TRUE]
       IN  rd' = [rd EXCEPT ![t] =
                    [q EXCEPT !.pc = IF q.todo = <<>> THEN "store" ELSE "chunk"]]
    /\ hsince' = [hsince EXCEPT ![t] = HarvestedIds]
    /\ UNCHANGED <<cacheVars, sessVars, authVars, genVars, addVars, entVars, now, objects, chunk_objects, player_chunks, hres, sched>>

(* get_objects_in_chunks_network: self.chunk_objects.get(chunk). The guard  *)
(* on the chunk's vector is held while its ids are read.                    *)
ReadChunk(t) ==
    /\ rd[t].pc = "chunk"
    /\ LET c == Head(rd[t].todo)
           ids == IF c \in DOMAIN chunk_objects THEN chunk_objects[c] ELSE <<>>
       IN  rd' = [rd EXCEPT ![t] =
                    IF ids = <<>> THEN AfterChunk(rd[t])
                    ELSE [rd[t] EXCEPT !.ids = ids, !.pc = "object"]]
    /\ UNCHANGED <<cacheVars, sessVars, authVars, genVars, addVars, entVars, now, objects, chunk_objects, player_chunks, hres, hsince, sched>>

(* get_objects_in_chunks_network: self.objects.get(object_id) for the next  *)
(* id of the chunk, and the push of its network data.                       *)
ReadObject(t) ==
    /\ rd[t].pc = "object"
    /\ LET q == [rd[t] EXCEPT !.spawn = PushIfActive(@, objects, Head(rd[t].ids)),
                              !.ids = Tail(@)]
       IN  rd' = [rd EXCEPT ![t] = IF q.ids = <<>> THEN AfterChunk(q) ELSE q]
    /\ UNCHANGED <<cacheVars, sessVars, authVars, genVars, addVars, entVars, now, objects, chunk_objects, player_chunks, hres, hsince, sched>>

\* DashMap::insert on player_chunks.
InsertPlayerChunks(pc, player_id, chunks) ==
    [k \in DOMAIN pc \cup {player_id} |-> IF k = player_id THEN chunks ELSE pc[k]]

(* send_initial_objects, second half: the player's chunks are stored and    *)
(* the spawn message is returned.                                           *)
InitialStore(t) ==
    /\ rd[t].pc = "store"
    /\ rd[t].op = "initial"
    /\ player_chunks' = InsertPlayerChunks(player_chunks, rd[t].player, rd[t].new)
    /\ rd' = [rd EXCEPT ![t].pc = "done"]
    /\ UNCHANGED <<cacheVars, sessVars, authVars, genVars, addVars, entVars, now, objects, chunk_objects, hres, hsince, sched>>

(* update_player_chunks: new_chunks, and old_chunks read from player_chunks *)
(* (empty when the player has none).                                        *)
UpdateBegin(t, player_id, position) ==
    /\ rd[t].pc \in {"idle", "done"}
    /\ rd' = [rd EXCEPT ![t] =
                [IdleQuery EXCEPT !.op = "update", !.player = player_id,
                                  !.position = position,
                                  !.new = Range(GetNearbyChunks(position)),
                                  !.old = IF player_id \in DOMAIN player_chunks
                                          THEN player_chunks[player_id] ELSE {},
                                  !.pc = "store"]]
    /\ hsince' = [hsince EXCEPT ![t] = HarvestedIds]
    /\ UNCHANGED <<cacheVars, sessVars, authVars, genVars, addVars, entVars, now, objects, chunk_objects, player_chunks, hres, sched>>

(* update_player_chunks: the new chunks are stored; then the spawn message  *)
(* is built from the enter chunks, in the order the HashSet yields them.    *)
UpdateStore(t) ==
    /\ rd[t].pc = "store"
    /\ rd[t].op = "update"
    /\ player_chunks' = InsertPlayerChunks(player_chunks, rd[t].player, rd[t].new)
    /\ LET enter == rd[t].new \ rd[t].old
       IN  IF enter = {}
           THEN \E q \in StartDespawn(rd[t]) : rd' = [rd EXCEPT ![t] = q]
           ELSE \E s \in Orders(enter \cap TrackedChunks) :
                  rd' = [rd EXCEPT ![t] =
                           IF Len(s) = 0
                           THEN [rd[t] EXCEPT !.has_spawn = TRUE, !.pc = "despawn"]
                           ELSE [rd[t] EXCEPT !.has_spawn = TRUE, !.todo = s,
                                              !.pc = "chunk"]]
    /\ UNCHANGED <<cacheVars, sessVars, authVars, genVars, addVars, entVars, now, objects, chunk_objects, hres, hsince, sched>>

(* update_player_chunks: the spawn message is complete; the exit chunks are *)
(* taken in the order the HashSet yields them.                              *)
UpdateDespawn(t) ==
    /\ rd[t].pc = "despawn"
    /\ \E q \in StartDespawn(rd[t]) : rd' = [rd EXCEPT ![t] = q]
    /\ UNCHANGED <<cacheVars, sessVars, authVars, genVars, addVars, entVars, now, objects, chunk_objects, player_chunks, hres, hsince, sched>>

(* update_player_chunks: every id of the next exit chunk, harvested or not, *)
(* goes into the despawn message.                                           *)
ReadExitChunk(t) ==
    /\ rd[t].pc = "exit"
    /\ LET c == Head(rd[t].todo)
           ids == IF c \in DOMAIN chunk_objects THEN chunk_objects[c] ELSE <<>>
       IN  rd' = [rd EXCEPT ![t] =
                    [rd[t] EXCEPT !.despawn = @ \o ids, !.todo = Tail(@),
                                  !.pc = IF Len(rd[t].todo) > 1 THEN "exit" ELSE "done"]]
    /\ UNCHANGED <<cacheVars, sessVars, authVars, genVars, addVars, entVars, now, objects, chunk_objects, player_chunks, hres, hsince, sched>>

(* EnvironmentManager::add_object: the object is inserted under its id,     *)
(* replacing an object of that id, and the id is pushed on the vector of    *)
(* its chunk. The calls are the caller's own, one after the other.          *)
AddObject(o) ==
    /\ LET c == FromPosition(o.position, ChunkSize)
       IN  c \in DOMAIN chunk_objects => Len(chunk_objects[c]) < MaxIndexed
    /\ objects' = AddToObjects(objects, o)
    /\ chunk_objects' = AddToIndex(chunk_objects, o)
    /\ UNCHANGED <<cacheVars, sessVars, authVars, genVars, addVars, entVars, now, player_chunks, hres, rd, hsince, sched>>

\* add_object that pushes the id on the chunk's vector before it inserts
\* the object.
AddWritesIndexFirst(objs, idx, o, k) ==
    IF k = 1 THEN [objects |-> objs, chunk_objects |-> AddToIndex(idx, o)]
    ELSE [objects |-> AddToObjects(objs, o), chunk_objects |-> idx]

\* The two maps after the k-th write of add_object: first the insert into
\* `objects`, then the push on the chunk's vector.
AddWrites(objs, idx, o, k) ==
    IF k = 1 THEN [objects |-> AddToObjects(objs, o), chunk_objects |-> idx]
    ELSE [objects |-> objs, chunk_objects |-> AddToIndex(idx, o)]

NotAdding == [pc |-> "idle", object |-> World[1]]

AddInit == adding = NotAdding

(* add_object, running beside other tasks: its first write.                 *)
AddFirst(o) ==
    /\ adding.pc = "idle"
    /\ LET c == FromPosition(o.position, ChunkSize)
       IN  c \in DOMAIN chunk_objects => Len(chunk_objects[c]) < MaxIndexed
    /\ LET w == AddWrites(objects, chunk_objects, o, 1)
       IN  objects' = w.objects /\ chunk_objects' = w.chunk_objects
    /\ adding' = [pc |-> "second", object |-> o]
    /\ UNCHANGED <<cacheVars, sessVars, authVars, entVars, genVars, now, player_chunks, hres, rd, hsince, sched>>

(* add_object: its second write, and the return.                            *)
AddSecond ==
    /\ adding.pc = "second"
    /\ LET w == AddWrites(objects, chunk_objects, adding.object, 2)
       IN  objects' = w.objects /\ chunk_objects' = w.chunk_objects
    /\ adding' = NotAdding
    /\ UNCHANGED <<cacheVars, sessVars, authVars, entVars, genVars, now, player_chunks, hres, rd, hsince, sched>>

(* EnvironmentManager::remove_player *)
RemovePlayer(player_id) ==
    /\ player_id \in DOMAIN player_chunks
    /\ player_chunks' = [k \in DOMAIN player_chunks \ {player_id} |-> player_chunks[k]]
    /\ UNCHANGED <<cacheVars, sessVars, authVars, genVars, addVars, entVars, now, objects, chunk_objects, hres, rd, hsince, sched>>

(* start_respawn_task: interval.tick() fires and get_respawnable_object_ids *)
(* starts to iterate the objects map.                                       *)
RespawnTick ==
    /\ sched.pc = "sleep"
    /\ sched' = [pc |-> "scan", seen |-> {}, ids |-> <<>>]
    /\ UNCHANGED <<cacheVars, sessVars, authVars, genVars, addVars, entVars, now, objects, chunk_objects, player_chunks, hres, rd, hsince>>

(* get_respawnable_object_ids: the iterator reaches one more entry, in the  *)
(* map's own order, and keeps its id when should_respawn() holds.           *)
RespawnScan ==
    /\ sched.pc = "scan"
    /\ \E id \in DOMAIN objects \ sched.seen :
         sched' = [sched EXCEPT !.seen = @ \cup {id},
                                !.ids = IF ShouldRespawn(objects[id], now)
                                        THEN Append(@, id) ELSE @]
    /\ UNCHANGED <<cacheVars, sessVars, authVars, genVars, addVars, entVars, now, objects, chunk_objects, player_chunks, hres, rd, hsince>>

(* get_respawnable_object_ids returns; with no ids the task sleeps again.   *)
RespawnCollected ==
    /\ sched.pc = "scan"
    /\ DOMAIN objects \subseteq sched.seen
    /\ sched' = IF sched.ids = <<>> THEN IdleSched
                ELSE [sched EXCEPT !.pc = "respawn", !.seen = {}]
    /\ UNCHANGED <<cacheVars, sessVars, authVars, genVars, addVars, entVars, now, objects, chunk_objects, player_chunks, hres, rd, hsince>>

\* respawn_object that flips nothing.
RespawnNothing(objs, id) == objs

\* EnvironmentManager::respawn_object on the objects map.
RespawnObject(objs, id) ==
    IF id \in DOMAIN objs THEN [objs EXCEPT ![id] = RespawnFields(@)] ELSE objs

\* What respawn_object returns: the respawn message with the network data
\* of the object as respawn() left it, or nothing for an id not in the map.
RespawnReply(objs, id) ==
    IF id \in DOMAIN objs THEN Some(ToNetworkData(RespawnFields(objs[id]))) ELSE None

(* EnvironmentManager::respawn_object called on its own, between queries.   *)
RespawnCall(id) ==
    /\ \A t \in Tasks : rd[t].pc \in {"idle", "done"}
    /\ objects' = RespawnObject(objects, id)
    /\ hsince' = [t \in Tasks |-> hsince[t] \ {id}]
    /\ UNCHANGED <<cacheVars, sessVars, authVars, genVars, addVars, entVars, now, chunk_objects, player_chunks, hres, rd, sched>>

(* start_respawn_task: respawn_object for the next collected id (the chunk  *)
(* and the players seeing it are only logged).                              *)
RespawnNext ==
    /\ sched.pc = "respawn"
    /\ LET id == Head(sched.ids)
       IN  /\ objects' = RespawnObject(objects, id)
           /\ hsince' = [t \in Tasks |-> hsince[t] \ {id}]
           /\ sched' = IF Len(sched.ids) > 1 THEN [sched EXCEPT !.ids = Tail(@)]
                       ELSE IdleSched
    /\ UNCHANGED <<cacheVars, sessVars, authVars, genVars, addVars, entVars, now, chunk_objects, player_chunks, hres, rd>>

Next ==
    \/ Tick
    \/ \E p \in Players, id \in ObjectIds \cup {UnknownId}, pos \in HarvestPositions :
          HandleHarvestRequest(p, id, pos)
    \/ RespawnTick
    \/ RespawnScan
    \/ RespawnCollected
    \/ RespawnNext

InterestNext ==
    \/ Tick
    \/ \E id \in ObjectIds, pos \in NearPositions : HandleHarvestRequest("p1", id, pos)
    \/ \E t \in Tasks, pos \in InterestPositions : InitialBegin(t, "p1", pos)
    \/ \E t \in Tasks, pos \in InterestPositions : UpdateBegin(t, "p1", pos)
    \/ \E t \in Tasks : ReadChunk(t)
    \/ \E t \in Tasks : ReadObject(t)
    \/ \E t \in Tasks : InitialStore(t)
    \/ \E t \in Tasks : UpdateStore(t)
    \/ \E t \in Tasks : UpdateDespawn(t)
    \/ \E t \in Tasks : ReadExitChunk(t)
    \/ RemovePlayer("p1")
    \/ RespawnTick
    \/ RespawnScan
    \/ RespawnCollected
    \/ RespawnNext


\* A joined player p1 and a player p2 that only ever moves, both among
\* MovePositions, while p1 harvests.
MoveNext ==
    \/ \E id \in ObjectIds, pos \in NearPositions : HandleHarvestRequest("p1", id, pos)
    \/ \E t \in Tasks, pos \in MovePositions : InitialBegin(t, "p1", pos)
    \/ \E t \in Tasks, p \in Players, pos \in MovePositions : UpdateBegin(t, p, pos)
    \/ \E t \in Tasks : ReadChunk(t)
    \/ \E t \in Tasks : ReadObject(t)
    \/ \E t \in Tasks : InitialStore(t)
    \/ \E t \in Tasks : UpdateStore(t)
    \/ \E t \in Tasks : UpdateDespawn(t)
    \/ \E t \in Tasks : ReadExitChunk(t)
    \/ \E p \in Players : RemovePlayer(p)


\* Harvest requests of every kind (unknown id, too far, in range, repeated)
\* beside a player's first interest query and the player's leaving.
FrameNext ==
    \/ \E id \in ObjectIds \cup {UnknownId}, pos \in HarvestPositions :
          HandleHarvestRequest("p1", id, pos)
    \/ \E t \in Tasks : InitialBegin(t, "p1", Pos(25, 0, 25))
    \/ \E t \in Tasks : ReadChunk(t)
    \/ \E t \in Tasks : ReadObject(t)
    \/ \E t \in Tasks : InitialStore(t)
    \/ RemovePlayer("p1")

\* add_object on the world main() built: the grass again where it is, the
\* grass at a position of chunk (1,0), the rock again, and a tree that is
\* new to the registry.
BuildNext ==
    \E o \in { World[1], [World[1] EXCEPT !.position = Pos(75, 0, 25)], World[2],
               [World[1] EXCEPT !.object_id = "tree_0_0_idx_0",
                                !.position = Pos(10, 0, 40),
                                !.resource_type = "Wood"] } :
        AddObject(o)

\* The respawn task and harvest requests on DueWorld, at one instant.
DueNext ==
    \/ \E i \in 1..Len(DueWorld) :
          HandleHarvestRequest("p1", DueWorld[i].object_id, Pos(15, 0, 25))
    \/ RespawnTick
    \/ RespawnScan
    \/ RespawnCollected
    \/ RespawnNext

\* Harvests, respawn_object calls and the initial queries that follow them.
CallNext ==
    \/ \E id \in ObjectIds, pos \in NearPositions : HandleHarvestRequest("p1", id, pos)
    \/ \E id \in ObjectIds \cup {UnknownId} : RespawnCall(id)
    \/ \E t \in Tasks, pos \in InterestPositions : InitialBegin(t, "p1", pos)
    \/ \E t \in Tasks : ReadChunk(t)
    \/ \E t \in Tasks : ReadObject(t)
    \/ \E t \in Tasks : InitialStore(t)

\* The clock, harvests and the respawn task, beside a player who joins in
\* sight of the grass and leaves.
FairNext ==
    \/ Tick
    \/ \E id \in ObjectIds, pos \in NearPositions : HandleHarvestRequest("p1", id, pos)
    \/ \E t \in Tasks : InitialBegin(t, "p1", Pos(50, 0, 0))
    \/ \E t \in Tasks : ReadChunk(t)
    \/ \E t \in Tasks : ReadObject(t)
    \/ \E t \in Tasks : InitialStore(t)
    \/ RemovePlayer("p1")
    \/ RespawnTick
    \/ RespawnScan
    \/ RespawnCollected
    \/ RespawnNext

\* add_object calls, for a tree and a rock new to the registry and for the
\* grass it holds, beside the initial queries of a player who sees the
\* chunks (0,0) and (5,0).
AddNext ==
    \/ \E o \in { World[1],
                  [World[1] EXCEPT !.object_id = "tree_0_0_idx_0",
                                   !.position = Pos(10, 0, 40),
                                   !.resource_type = "Wood"],
                  [World[2] EXCEPT !.object_id = "rock_5_0_idx_1"] } : AddFirst(o)
    \/ AddSecond
    \/ \E t \in Tasks : InitialBegin(t, "p1", Pos(125, 0, 25))
    \/ \E t \in Tasks : ReadChunk(t)
    \/ \E t \in Tasks : ReadObject(t)
    \/ \E t \in Tasks : InitialStore(t)

(* ------------------------------ token cache ---------------------------- *)

Threads == {"c1", "c2"}

\* A well-formed JWT, named by a number.
Jwt(k) == <<"jwt", k>>

\* The token of the second caller.
OtherToken == Jwt(4)

\* A token jsonwebtoken::decode rejects, and one whose claims carry no exp.
GarbageToken == <<"garbage", 0>>
NoExpToken == <<"noexp", 0>>

\* The tokens of the first caller.
VerifyTokens == {Jwt(1), GarbageToken, NoExpToken}

\* The exp claim of a well-formed JWT: the first two expire within the
\* clock's range, the others after it.
ExpOf(tok) == IF tok[2] <= 2 THEN tok[2] ELSE MaxTime + 1

\* The id the identity endpoint reports for a token.
UserOf(tok) == <<"user", tok[2]>>

\* What the call to the identity endpoint can come to.
ApiOutcomes == {"transport", "non2xx", "notjson", "noid", "ok"}

NoInfo == [user_id |-> <<"user", 0>>, role |-> "none", expires_at |-> 0, verified_at |-> 0]

\* TokenInfo::is_expired with `>` for `>=`.
IsExpiredAfter(info, t) == t > info.expires_at

\* TokenInfo::is_expired
IsExpired(info, t) == t >= info.expires_at

\* cleanup_expired's filter with `<` for `<=`.
CleanupBefore(info, t) == info.expires_at < t

\* cleanup_expired's filter
CleanupExpired(info, t) == info.expires_at <= t

\* The eviction count of insert as ceil(max / 10).
EvictCountCeil(max) == (max + 9) \div 10

\* The eviction count of insert: MAX_CACHE_SIZE / 10 on usize.
EvictCount(max) == max \div 10

Ok(info, cause) == [ok |-> TRUE, err |-> "none", cause |-> cause, info |-> info]
Err(variant, cause) == [ok |-> FALSE, err |-> variant, cause |-> cause, info |-> NoInfo]
NoResult == [ok |-> FALSE, err |-> "none", cause |-> "none", info |-> NoInfo]

\* verify_with_supabase(token) when the endpoint's call comes to `outcome`
\* and the monotonic clock reads `inst`.
VerifyWithSupabase(tok, outcome, inst) ==
    IF outcome = "transport" THEN Err("SupabaseApiError", "transport")
    ELSE IF outcome = "non2xx" THEN Err("InvalidToken", "non2xx")
    ELSE IF outcome = "notjson" THEN Err("InvalidResponse", "notjson")
    ELSE IF outcome = "noid" THEN Err("InvalidResponse", "noid")
    ELSE IF tok = GarbageToken THEN Err("InvalidToken", "decode")
    ELSE IF tok = NoExpToken THEN Err("InvalidToken", "noexp")
    ELSE Ok([user_id |-> UserOf(tok), role |-> "authenticated",
             expires_at |-> ExpOf(tok), verified_at |-> inst], "api")

\* verify_and_cache that goes on to insert whatever the verification gave.
InsertAlways(r) == "insert"

\* verify_and_cache after verify_with_supabase: `?` returns the error,
\* a TokenInfo goes on to insert.
AfterVerify(r) == IF r.ok THEN "insert" ELSE "done"

\* DashMap::remove and DashMap::insert on tokens.
RemoveToken(m, tok) == [k \in DOMAIN m \ {tok} |-> m[k]]
PutToken(m, tok, info) == [k \in DOMAIN m \cup {tok} |-> IF k = tok THEN info ELSE m[k]]

\* evict_oldest whose sort puts the newest key first.
SortNewestFirst(m, S) ==
    [i \in 1..Cardinality(S) |->
        CHOOSE a \in S :
            Cardinality({b \in S : m[b].verified_at > m[a].verified_at}) = i - 1]

\* evict_oldest: the keys of the snapshot sorted by verified_at, oldest first
\* (every entry has a monotonic clock reading of its own, so the i-th key is
\* the one with i - 1 older keys).
SortByVerifiedAt(m, S) ==
    [i \in 1..Cardinality(S) |->
        CHOOSE a \in S :
            Cardinality({b \in S : m[b].verified_at < m[a].verified_at}) = i - 1]

\* Iterator::take
Take(s, n) == SubSeq(s, 1, IF n < Len(s) THEN n ELSE Len(s))

\* evict_oldest(count), up to its removals: the keys it will remove.
Victims(m, count) == Take(SortByVerifiedAt(m, DOMAIN m), count)

IdleThread ==
    [pc |-> "idle", token |-> GarbageToken, result |-> NoResult,
     size0 |-> 0, victims |-> <<>>, evicted |-> 0, solo |-> TRUE]

IdleMgr ==
    [pc |-> "sleep", now |-> 0, todo |-> <<>>, count |-> 0,
     evicted |-> 0, quiet |-> FALSE]

\* A token verified and cached before the behaviour begins.
Old(k) == <<"old", k>>

\* The cache of a server that has run for a while: one entry short of
\* MAX_CACHE_SIZE, each a long-lived token cached by an earlier
\* verify_and_cache, the k-th at the k-th reading of the monotonic clock.
Warm == MAX_CACHE_SIZE - 1

WarmCache ==
    [tok \in {Old(k) : k \in 1..Warm} |->
        [user_id |-> UserOf(tok), role |-> "authenticated",
         expires_at |-> MaxTime + 1, verified_at |-> tok[2]]]

\* The most entries the cache of a behaviour can come to hold.
MaxEntries == Warm + MaxInstant

\* JwtCache::new leaves the cache empty; a behaviour begins there or with
\* the cache earlier calls have filled, the clock past their readings.
CacheInit ==
    /\ tokens \in {<<>>, WarmCache}
    /\ instant = Warm
    /\ th = [t \in Threads |-> IdleThread]
    /\ mgr = IdleMgr

\* Another caller or the manager changed tokens during t's insert.
NotSolo(r) == IF r.pc \in {"evict", "evicting", "put"} THEN [r EXCEPT !.solo = FALSE] ELSE r

\* th after thread t moves to r without changing tokens / changing tokens.
ThStep(t, r) == [u \in Threads |-> IF u = t THEN r ELSE th[u]]
ThWrite(t, r) == [u \in Threads |-> IF u = t THEN r ELSE NotSolo(th[u])]

\* The manager's record once a verify call has taken a step during its tick.
MgrSeen == IF mgr.pc \in {"sleep", "panicked"} THEN mgr ELSE [mgr EXCEPT !.quiet = FALSE]

VerifyQuiet == \A t \in Threads : th[t].pc \in {"idle", "done"}

(* verify_and_cache(token) is called.                                       *)
VerifyBegin(t, tok) ==
    /\ th[t].pc \in {"idle", "done"}
    /\ th' = ThStep(t, [IdleThread EXCEPT !.pc = "get", !.token = tok])
    /\ mgr' = MgrSeen
    /\ UNCHANGED <<tokens, instant, envVars, sessVars, authVars, genVars, addVars, entVars>>

(* verify_and_cache(token) is called by a caller that has made no call.     *)
VerifyFirst(t, tok) ==
    /\ th[t].pc = "idle"
    /\ VerifyBegin(t, tok)

(* JwtCache::get: the entry is read and cloned under its guard and          *)
(* is_expired() reads the clock. A live entry is returned; an expired one   *)
(* is left for the remove that follows the guard's drop.                    *)
GetRead(t) ==
    /\ th[t].pc = "get"
    /\ LET tok == th[t].token
       IN  th' = ThStep(t,
                 IF tok \in DOMAIN tokens
                 THEN IF ~IsExpired(tokens[tok], now)
                      THEN [th[t] EXCEPT !.pc = "done", !.result = Ok(tokens[tok], "cache")]
                      ELSE [th[t] EXCEPT !.pc = "remove"]
                 ELSE [th[t] EXCEPT !.pc = "api"])
    /\ mgr' = MgrSeen
    /\ UNCHANGED <<tokens, instant, envVars, sessVars, authVars, genVars, addVars, entVars>>

(* JwtCache::get: self.tokens.remove(token) of the expired entry.           *)
GetRemove(t) ==
    /\ th[t].pc = "remove"
    /\ tokens' = RemoveToken(tokens, th[t].token)
    /\ th' = ThWrite(t, [th[t] EXCEPT !.pc = "api"])
    /\ mgr' = MgrSeen
    /\ UNCHANGED <<instant, envVars, sessVars, authVars, genVars, addVars, entVars>>

(* verify_and_cache: verify_with_supabase(token).await, which touches no   *)
(* shared state but the monotonic clock.                                    *)
CallSupabase(t) ==
    /\ th[t].pc = "api"
    /\ \E outcome \in ApiOutcomes :
         LET r == VerifyWithSupabase(th[t].token, outcome, instant + 1)
         IN  /\ r.ok => instant < MaxEntries
             /\ instant' = IF r.ok THEN instant + 1 ELSE instant
             /\ th' = ThStep(t, [th[t] EXCEPT !.pc = AfterVerify(r), !.result = r])
    /\ mgr' = MgrSeen
    /\ UNCHANGED <<tokens, envVars, sessVars, authVars, genVars, addVars, entVars>>

(* JwtCache::insert: cache_size = self.tokens.len() and the size test.      *)
InsertLen(t) ==
    /\ th[t].pc = "insert"
    /\ LET n == Cardinality(DOMAIN tokens)
       IN  th' = ThStep(t, [th[t] EXCEPT !.size0 = n, !.solo = TRUE,
                                         !.pc = IF n >= MAX_CACHE_SIZE THEN "evict" ELSE "put"])
    /\ mgr' = MgrSeen
    /\ UNCHANGED <<tokens, instant, envVars, sessVars, authVars, genVars, addVars, entVars>>

(* insert: evict_oldest(MAX_CACHE_SIZE / 10) snapshots and sorts.           *)
EvictSnapshot(t) ==
    /\ th[t].pc = "evict"
    /\ LET v == Victims(tokens, EvictCount(MAX_CACHE_SIZE))
       IN  th' = ThStep(t, [th[t] EXCEPT !.victims = v,
                                         !.pc = IF v = <<>> THEN "put" ELSE "evicting"])
    /\ mgr' = MgrSeen
    /\ UNCHANGED <<tokens, instant, envVars, sessVars, authVars, genVars, addVars, entVars>>

(* insert: evict_oldest removes the next key of its list.                   *)
EvictRemove(t) ==
    /\ th[t].pc = "evicting"
    /\ LET k == Head(th[t].victims)
       IN  /\ tokens' = RemoveToken(tokens, k)
           /\ th' = ThWrite(t, [th[t] EXCEPT
                      !.victims = Tail(@),
                      !.evicted = IF k \in DOMAIN tokens THEN @ + 1 ELSE @,
                      !.pc = IF Len(th[t].victims) > 1 THEN "evicting" ELSE "put"])
    /\ mgr' = MgrSeen
    /\ UNCHANGED <<instant, envVars, sessVars, authVars, genVars, addVars, entVars>>

(* insert: self.tokens.insert(token, info); verify_and_cache returns Ok.    *)
InsertPut(t) ==
    /\ th[t].pc = "put"
    /\ tokens' = PutToken(tokens, th[t].token, th[t].result.info)
    /\ th' = ThWrite(t, [IdleThread EXCEPT !.pc = "done", !.token = th[t].token,
                                           !.result = th[t].result])
    /\ mgr' = MgrSeen
    /\ UNCHANGED <<instant, envVars, sessVars, authVars, genVars, addVars, entVars>>

(* run_manager: interval.tick() fires.                                      *)
MgrTick ==
    /\ mgr.pc = "sleep"
    /\ mgr' = [IdleMgr EXCEPT !.pc = "cleanup", !.quiet = VerifyQuiet]
    /\ UNCHANGED <<tokens, instant, th, envVars, sessVars, authVars, genVars, addVars, entVars>>

(* cleanup_expired: the clock is read and the expired keys are collected.   *)
MgrCleanupScan ==
    /\ mgr.pc = "cleanup"
    /\ \E s \in Orders({k \in DOMAIN tokens : CleanupExpired(tokens[k], now)}) :
         mgr' = [mgr EXCEPT !.now = now, !.todo = s,
                            !.pc = IF s = <<>> THEN "check" ELSE "removing"]
    /\ UNCHANGED <<tokens, instant, th, envVars, sessVars, authVars, genVars, addVars, entVars>>

(* cleanup_expired: self.tokens.remove(&token) of the next collected key.   *)
MgrCleanupRemove ==
    /\ mgr.pc = "removing"
    /\ tokens' = RemoveToken(tokens, Head(mgr.todo))
    /\ mgr' = [mgr EXCEPT !.todo = Tail(@),
                          !.pc = IF Len(mgr.todo) > 1 THEN "removing" ELSE "check"]
    /\ th' = [u \in Threads |-> NotSolo(th[u])]
    /\ UNCHANGED <<instant, envVars, sessVars, authVars, genVars, addVars, entVars>>

(* run_manager: `if self.tokens.len() > MAX_CACHE_SIZE`.                    *)
MgrCheckSize ==
    /\ mgr.pc = "check"
    /\ mgr' = [mgr EXCEPT !.pc = IF Cardinality(DOMAIN tokens) > MAX_CACHE_SIZE
                                 THEN "arg" ELSE "sleep"]
    /\ UNCHANGED <<tokens, instant, th, envVars, sessVars, authVars, genVars, addVars, entVars>>

(* run_manager: the argument self.tokens.len() - MAX_CACHE_SIZE, with len   *)
(* read again. Should len have fallen under MAX_CACHE_SIZE the usize        *)
(* subtraction overflows: the task panics, or the count wraps to one larger *)
(* than any cache (no cache holds more than MaxEntries entries).            *)
MgrEvictArg ==
    /\ mgr.pc = "arg"
    /\ LET n == Cardinality(DOMAIN tokens)
       IN  IF n >= MAX_CACHE_SIZE
           THEN mgr' = [mgr EXCEPT !.count = n - MAX_CACHE_SIZE, !.pc = "snapshot"]
           ELSE \/ mgr' = [mgr EXCEPT !.pc = "panicked"]
                \/ mgr' = [mgr EXCEPT !.count = MaxEntries, !.pc = "snapshot"]
    /\ UNCHANGED <<tokens, instant, th, envVars, sessVars, authVars, genVars, addVars, entVars>>

(* run_manager: evict_oldest(count) snapshots and sorts.                    *)
MgrEvictSnapshot ==
    /\ mgr.pc = "snapshot"
    /\ LET v == Victims(tokens, mgr.count)
       IN  mgr' = [mgr EXCEPT !.todo = v, !.count = 0,
                              !.pc = IF v = <<>> THEN "sleep" ELSE "evicting"]
    /\ UNCHANGED <<tokens, instant, th, envVars, sessVars, authVars, genVars, addVars, entVars>>

(* run_manager: evict_oldest removes the next key of its list.              *)
MgrEvictRemove ==
    /\ mgr.pc = "evicting"
    /\ LET k == Head(mgr.todo)
       IN  /\ tokens' = RemoveToken(tokens, k)
           /\ mgr' = [mgr EXCEPT !.todo = Tail(@),
                                 !.evicted = IF k \in DOMAIN tokens THEN @ + 1 ELSE @,
                                 !.pc = IF Len(mgr.todo) > 1 THEN "evicting" ELSE "sleep"]
    /\ th' = [u \in Threads |-> NotSolo(th[u])]
    /\ UNCHANGED <<instant, envVars, sessVars, authVars, genVars, addVars, entVars>>

(* ------------------------------- sessions ------------------------------ *)

\* The Authorization header of an upgrade request: absent, a Bearer token,
\* or a value of another scheme.
Bearer(tok) == Some([scheme |-> "Bearer ", rest |-> tok])
Basic(tok) == Some([scheme |-> "Basic ", rest |-> tok])

SessionTokens == {Jwt(1), Jwt(3), GarbageToken}

\* A header that differs from a Bearer one in the case of its first letter.
LowerBearer(tok) == Some([scheme |-> "bearer ", rest |-> tok])

HeaderValues ==
    {None} \cup {Bearer(tok) : tok \in SessionTokens} \cup {Basic(Jwt(3)), LowerBearer(Jwt(3))}
QueryValues == {None, Some(Jwt(3)), Some(NoExpToken)}

\* extract_token_from_header: Some(token), or None for its Err.
ExtractTokenFromHeader(h) ==
    IF IsSome(h) /\ Unwrap(h).scheme = "Bearer " THEN Some(Unwrap(h).rest) ELSE None

\* ws_upgrade taking the query's token before the header's.
UpgradeTokenQueryFirst(h, q) ==
    IF IsSome(q) THEN q ELSE ExtractTokenFromHeader(h)

\* ws_upgrade: the header's token, else the query's, else none.
UpgradeToken(h, q) ==
    IF IsSome(ExtractTokenFromHeader(h)) THEN ExtractTokenFromHeader(h) ELSE q

\* extract_token_from_headers that takes what follows any seven bytes.
ExtractAnyScheme(h) ==
    IF ~IsSome(h) THEN [ok |-> FALSE, token |-> GarbageToken, err |-> "MissingToken"]
    ELSE [ok |-> TRUE, token |-> Unwrap(h).rest, err |-> "none"]

\* auth::extract_token_from_headers: MissingToken without the header,
\* InvalidToken unless it starts with "Bearer ", else the text after it.
ExtractTokenFromHeaders(h) ==
    IF ~IsSome(h) THEN [ok |-> FALSE, token |-> GarbageToken, err |-> "MissingToken"]
    ELSE IF Unwrap(h).scheme # "Bearer "
    THEN [ok |-> FALSE, token |-> GarbageToken, err |-> "InvalidToken"]
    ELSE [ok |-> TRUE, token |-> Unwrap(h).rest, err |-> "none"]

\* What jsonwebtoken::decode can come to for a token whose header decodes.
ValidateOutcomes == {"ExpiredSignature", "InvalidIssuer", "other", "ok"}

\* auth::validate_token: Claims, or the AuthError its failure is mapped to.
ValidateToken(tok, outcome) ==
    IF tok = GarbageToken THEN [ok |-> FALSE, err |-> "InvalidToken", sub |-> <<"user", 0>>, exp |-> 0]
    ELSE IF outcome = "ExpiredSignature"
    THEN [ok |-> FALSE, err |-> "ExpiredToken", sub |-> <<"user", 0>>, exp |-> 0]
    ELSE IF outcome = "InvalidIssuer"
    THEN [ok |-> FALSE, err |-> "InvalidIssuer", sub |-> <<"user", 0>>, exp |-> 0]
    ELSE IF outcome = "other" \/ tok = NoExpToken
    THEN [ok |-> FALSE, err |-> "DecodeError", sub |-> <<"user", 0>>, exp |-> 0]
    ELSE [ok |-> TRUE, err |-> "none", sub |-> UserOf(tok), exp |-> ExpOf(tok)]

\* What auth_middleware answers: the 401 of an AuthError, or the response of
\* the handler it runs with the AuthUser installed (200 here).
MwAnswer(status, error, user_id) == [status |-> status, error |-> error, user_id |-> user_id]

\* No request has passed the middleware yet.
AuthInit == mw = [c \in Threads |-> MwAnswer(0, "none", <<"user", 0>>)]

(* auth_middleware: extract_auth_user_from_parts, the expiry check and the  *)
(* handler; it does not suspend before the handler runs.                    *)
AuthMiddleware(c, h, outcome) ==
    /\ LET r == ExtractTokenFromHeaders(h)
           v == ValidateToken(r.token, outcome)
       IN  mw' = [mw EXCEPT ![c] =
                    IF ~r.ok THEN MwAnswer(401, r.err, <<"user", 0>>)
                    ELSE IF ~v.ok THEN MwAnswer(401, v.err, <<"user", 0>>)
                    ELSE IF v.exp < now
                    THEN MwAnswer(401, "ExpiredToken", <<"user", 0>>)
                    ELSE MwAnswer(200, "none", v.sub)]
    /\ UNCHANGED <<envVars, cacheVars, sessVars, entVars, genVars, addVars>>

\* ws_upgrade's expiry check that lets every TokenInfo through.
ExpiryStatusNever(info, t) == 101

\* ws_upgrade: `if token_info.is_expired()` answers 401, else the upgrade.
ExpiryStatus(info, t) == IF IsExpired(info, t) THEN 401 ELSE 101

\* ws_upgrade's match with InvalidResponse answered like InvalidToken.
ErrorStatusRejecting(r) == IF r.err \in {"InvalidToken", "InvalidResponse"} THEN 401 ELSE 500

\* ws_upgrade's match on the error of verify_and_cache: InvalidToken is
\* answered 401, every other error 500.
ErrorStatus(r) == IF r.err = "InvalidToken" THEN 401 ELSE 500

\* The status ws_upgrade answers for the result of verify_and_cache.
HandshakeStatus(r, t) == IF r.ok THEN ExpiryStatus(r.info, t) ELSE ErrorStatus(r)

\* A frame the server sends.
Frame(type, user_id, role, payload) ==
    [type |-> type, user_id |-> user_id, role |-> role, payload |-> payload]

NoUser == <<"user", 0>>

Welcome(auth_user) == Frame("connected", auth_user.user_id, auth_user.role, "none")

\* An item of a client's stream: a Message of some kind with its data, an
\* Err item or the end of the stream. A text is the sequence of its pieces.
Msg(kind, data) == [kind |-> kind, data |-> data]

\* The piece of text ws_loop looks for.
PingTag == "\"type\":\"ping\""

ClientFrames ==
    {Msg("Text", <<"{", PingTag, "}">>), Msg("Text", <<"say ", PingTag>>),
     Msg("Text", <<"hello">>), Msg("Text", <<"{", "\"type\":\"join\"", "}">>),
     Msg("Binary", <<1, 2>>), Msg("Ping", <<7>>), Msg("Pong", <<7>>),
     Msg("Close", <<>>), Msg("Err", <<>>), Msg("End", <<>>)}

\* ws_loop touches nothing but its own socket, so the frames of one
\* connection are followed and the other's stream only ends.
FramesOf(c) ==
    IF c = "c1"
    THEN {f \in ClientFrames : f.kind = "Text" => f.data \in {<<"{", PingTag, "}">>, <<"hello">>}}
    ELSE {Msg("End", <<>>)}

\* ws_loop answering every text with an echo.
ReplyEchoAll(f, user_id) ==
    IF f.kind = "Text" THEN Some(Frame("echo", user_id, "none", f.data))
    ELSE IF f.kind = "Binary" THEN Some(Frame("binary", NoUser, "none", f.data))
    ELSE IF f.kind = "Ping" THEN Some(Frame("Pong", NoUser, "none", f.data))
    ELSE None

\* ws_loop: what one received message is answered with, if anything.
Reply(f, user_id) ==
    IF f.kind = "Text" /\ \E i \in DOMAIN f.data : f.data[i] = PingTag
    THEN Some(Frame("pong", NoUser, "none", "timestamp"))
    ELSE IF f.kind = "Text" THEN Some(Frame("echo", user_id, "none", f.data))
    ELSE IF f.kind = "Binary" THEN Some(Frame("binary", NoUser, "none", f.data))
    ELSE IF f.kind = "Ping" THEN Some(Frame("Pong", NoUser, "none", f.data))
    ELSE None

\* The AuthUser ws_upgrade builds from a TokenInfo, as far as ws_loop reads it.
AuthUserOf(info) == [user_id |-> info.user_id, role |-> info.role, exp |-> info.expires_at]

NoConn ==
    [pc |-> "none", status |-> 0, error |-> "none", auth_user |-> AuthUserOf(NoInfo),
     sent |-> <<>>, message_count |-> 0]

SessInit ==
    /\ conn = [c \in Threads |-> NoConn]
    /\ server = "running"

(* ws_upgrade up to the call of verify_and_cache: without a token the       *)
(* request is answered 401.                                                 *)
WsUpgrade(c, h, q) ==
    /\ server = "running"
    /\ conn[c].pc \in {"none", "rejected", "ended"}
    /\ LET token == UpgradeToken(h, q)
       IN  IF IsSome(token)
           THEN /\ conn' = [conn EXCEPT ![c] = [NoConn EXCEPT !.pc = "verifying"]]
                /\ th' = ThStep(c, [IdleThread EXCEPT !.pc = "get", !.token = Unwrap(token)])
                /\ mgr' = MgrSeen
           ELSE /\ conn' = [conn EXCEPT ![c] = [NoConn EXCEPT !.pc = "rejected", !.status = 401,
                                                             !.error = "Missing or invalid auth token"]]
                /\ UNCHANGED <<th, mgr>>
    /\ UNCHANGED <<tokens, instant, server, envVars, authVars, genVars, addVars, entVars>>

(* ws_upgrade after verify_and_cache returned: the match on its result and  *)
(* the expiry check; the upgrade is answered when both pass.                *)
WsVerified(c) ==
    /\ conn[c].pc = "verifying"
    /\ th[c].pc = "done"
    /\ LET status == HandshakeStatus(th[c].result, now)
       IN  conn' = [conn EXCEPT ![c] =
                      IF status = 101
                      THEN [@ EXCEPT !.status = status, !.pc = "upgraded",
                                     !.auth_user = AuthUserOf(th[c].result.info)]
                      ELSE [@ EXCEPT !.status = status, !.pc = "rejected",
                                     !.error = IF th[c].result.ok THEN "Token expired"
                                               ELSE th[c].result.err]]
    /\ th' = ThStep(c, IdleThread)
    /\ UNCHANGED <<tokens, instant, mgr, server, envVars, authVars, genVars, addVars, entVars>>

(* ws_loop: the welcome is sent; the loop is entered only when the send     *)
(* succeeded.                                                               *)
WsWelcome(c, sendOk) ==
    /\ conn[c].pc = "upgraded"
    /\ conn' = [conn EXCEPT ![c] =
                  IF sendOk THEN [@ EXCEPT !.pc = "open", !.sent = <<Welcome(conn[c].auth_user)>>]
                  ELSE [@ EXCEPT !.pc = "ended"]]
    /\ UNCHANGED <<cacheVars, server, envVars, authVars, genVars, addVars, entVars>>

(* ws_loop: one item of the socket's stream is handled.                     *)
WsFrame(c, f, sendOk) ==
    /\ conn[c].pc = "open"
    /\ f.kind \notin {"Err", "End"} => conn[c].message_count < MaxFrames
    /\ LET r == Reply(f, conn[c].auth_user.user_id)
           counted == IF f.kind \in {"Err", "End"} THEN conn[c].message_count
                      ELSE conn[c].message_count + 1
       IN  conn' = [conn EXCEPT ![c] =
                      IF f.kind \in {"Close", "Err", "End"}
                      THEN [@ EXCEPT !.pc = "ended", !.message_count = counted]
                      ELSE IF IsSome(r) /\ ~sendOk
                      THEN [@ EXCEPT !.pc = "ended", !.message_count = counted]
                      ELSE [@ EXCEPT !.message_count = counted,
                                     !.sent = IF IsSome(r) THEN Append(@, Unwrap(r)) ELSE @]]
    /\ UNCHANGED <<cacheVars, server, envVars, authVars, genVars, addVars, entVars>>

(* ------------------------- the entity registry ------------------------- *)

\* stale_timeout of the registry main builds, in seconds.
StaleTimeout == 120

\* The period of run_cleanup_task, in seconds; the monotonic clock is
\* followed in steps of it.
CleanupInterval == 60

\* max_slots of Inventory::default.
DefaultMaxSlots == 20

\* The entities calls are made for: a player's user_id and a world entity's id.
EntityIds == {<<"user", 1>>, <<"mob", 1>>}

\* The health values calls name: below the range, its ends' neighbours, above.
Healths == {0 - 5, 0, 50, 150}

\* InventoryItem::new
InventoryItem(item_id, quantity) ==
    [item_id |-> item_id, quantity |-> quantity, metadata |-> None]

\* Inventory::add_item that appends without looking at the slot limit.
InventoryAddUnlimited(inv, item_id, quantity, wraps) ==
    LET S == {i \in DOMAIN inv.items :
                inv.items[i].item_id = item_id /\ inv.items[i].metadata = None}
        pos == CHOOSE i \in S : \A j \in S : i <= j
        sum == inv.items[pos].quantity + quantity
    IN  IF S # {}
        THEN IF sum > QuantityMax /\ ~wraps
             THEN [ok |-> FALSE, panicked |-> TRUE, inv |-> inv]
             ELSE [ok |-> TRUE, panicked |-> FALSE,
                   inv |-> [inv EXCEPT !.items[pos].quantity = sum % (QuantityMax + 1)]]
        ELSE [ok |-> TRUE, panicked |-> FALSE,
              inv |-> [inv EXCEPT !.items = Append(@, InventoryItem(item_id, quantity))]]

\* Inventory::add_item that never stacks.
InventoryAddNoStack(inv, item_id, quantity, wraps) ==
    IF inv.max_slots > 0 /\ Len(inv.items) >= inv.max_slots
    THEN [ok |-> FALSE, panicked |-> FALSE, inv |-> inv]
    ELSE [ok |-> TRUE, panicked |-> FALSE,
          inv |-> [inv EXCEPT !.items = Append(@, InventoryItem(item_id, quantity))]]

\* Inventory::add_item: the quantity goes onto the first slot of this item
\* without metadata, else into a new slot unless the inventory is full. The
\* sum overflows beyond the largest quantity: the build either wraps it
\* or panics, leaving the inventory as it was.
InventoryAddItem(inv, item_id, quantity, wraps) ==
    LET S == {i \in DOMAIN inv.items :
                inv.items[i].item_id = item_id /\ inv.items[i].metadata = None}
        pos == CHOOSE i \in S : \A j \in S : i <= j
        sum == inv.items[pos].quantity + quantity
    IN  IF S # {}
        THEN IF sum > QuantityMax /\ ~wraps
             THEN [ok |-> FALSE, panicked |-> TRUE, inv |-> inv]
             ELSE [ok |-> TRUE, panicked |-> FALSE,
                   inv |-> [inv EXCEPT !.items[pos].quantity = sum % (QuantityMax + 1)]]
        ELSE IF inv.max_slots > 0 /\ Len(inv.items) >= inv.max_slots
        THEN [ok |-> FALSE, panicked |-> FALSE, inv |-> inv]
        ELSE [ok |-> TRUE, panicked |-> FALSE,
              inv |-> [inv EXCEPT !.items = Append(@, InventoryItem(item_id, quantity))]]

\* Inventory::remove_item that leaves the emptied slot in place.
InventoryRemoveKeepSlot(inv, item_id, quantity) ==
    LET S == {i \in DOMAIN inv.items : inv.items[i].item_id = item_id}
        pos == CHOOSE i \in S : \A j \in S : i <= j
    IN  IF S # {} /\ inv.items[pos].quantity >= quantity
        THEN [ok |-> TRUE, inv |-> [inv EXCEPT !.items[pos].quantity = @ - quantity]]
        ELSE [ok |-> FALSE, inv |-> inv]

\* Inventory::remove_item: from the first slot of this item, whatever its
\* metadata; the slot goes when nothing is left in it.
InventoryRemoveItem(inv, item_id, quantity) ==
    LET S == {i \in DOMAIN inv.items : inv.items[i].item_id = item_id}
        pos == CHOOSE i \in S : \A j \in S : i <= j
        left == inv.items[pos].quantity - quantity
    IN  IF S # {} /\ inv.items[pos].quantity >= quantity
        THEN [ok |-> TRUE,
              inv |-> IF left = 0
                      THEN [inv EXCEPT !.items = SubSeq(@, 1, pos - 1) \o SubSeq(@, pos + 1, Len(@))]
                      ELSE [inv EXCEPT !.items[pos].quantity = left]]
        ELSE [ok |-> FALSE, inv |-> inv]

\* EntityState::new_player, new_npc, new_enemy (health 100) and new_boss.
NewEntity(entity_type, email, health) ==
    [entity_type |-> entity_type, email |-> email, position |-> Pos(0, 0, 0),
     health |-> health, is_alive |-> TRUE,
     inventory |-> [items |-> <<>>, max_slots |-> DefaultMaxSlots],
     last_update |-> now, last_seen |-> instant]

\* EntityState::update_health with is_alive true at health 0.
EntityUpdateHealthInclusive(e, health) ==
    LET clamped == IF health < 0 THEN 0 ELSE IF health > 100 THEN 100 ELSE health
    IN  [e EXCEPT !.health = clamped, !.is_alive = clamped >= 0,
                  !.last_update = now, !.last_seen = instant]

\* EntityState::update_health
EntityUpdateHealth(e, health) ==
    LET clamped == IF health < 0 THEN 0 ELSE IF health > 100 THEN 100 ELSE health
    IN  [e EXCEPT !.health = clamped, !.is_alive = clamped > 0,
                  !.last_update = now, !.last_seen = instant]

\* EntityState::is_stale that counts an entity seen exactly a timeout ago.
IsStaleInclusive(e) == instant - e.last_seen >= StaleTimeout

\* EntityState::is_stale
IsStale(e) == instant - e.last_seen > StaleTimeout

\* EntityStateManager::add_player
AddPlayer(id, email) ==
    /\ entities' = [x \in DOMAIN entities \cup {id} |->
                      IF x = id THEN NewEntity("Player", email, 100) ELSE entities[x]]
    /\ eres' = [ret |-> "ok", died |-> FALSE]
    /\ UNCHANGED <<envVars, cacheVars, sessVars, authVars, genVars, addVars, sweep>>

\* EntityStateManager::add_npc
AddNpc(id) ==
    /\ entities' = [x \in DOMAIN entities \cup {id} |->
                      IF x = id THEN NewEntity("Npc", None, 100) ELSE entities[x]]
    /\ eres' = [ret |-> "ok", died |-> FALSE]
    /\ UNCHANGED <<envVars, cacheVars, sessVars, authVars, genVars, addVars, sweep>>

\* EntityStateManager::add_enemy
AddEnemy(id) ==
    /\ entities' = [x \in DOMAIN entities \cup {id} |->
                      IF x = id THEN NewEntity("Enemy", None, 100) ELSE entities[x]]
    /\ eres' = [ret |-> "ok", died |-> FALSE]
    /\ UNCHANGED <<envVars, cacheVars, sessVars, authVars, genVars, addVars, sweep>>

\* EntityStateManager::add_boss
AddBoss(id, health) ==
    /\ entities' = [x \in DOMAIN entities \cup {id} |->
                      IF x = id THEN NewEntity("Boss", None, health) ELSE entities[x]]
    /\ eres' = [ret |-> "ok", died |-> FALSE]
    /\ UNCHANGED <<envVars, cacheVars, sessVars, authVars, genVars, addVars, sweep>>

\* EntityStateManager::update_position
UpdatePosition(id, position) ==
    /\ IF id \in DOMAIN entities
       THEN /\ entities' = [entities EXCEPT ![id] =
                              [@ EXCEPT !.position = position, !.last_update = now,
                                        !.last_seen = instant]]
            /\ eres' = [ret |-> "ok", died |-> FALSE]
       ELSE /\ eres' = [ret |-> "none", died |-> FALSE]
            /\ UNCHANGED entities
    /\ UNCHANGED <<envVars, cacheVars, sessVars, authVars, genVars, addVars, sweep>>

\* EntityStateManager::update_health
UpdateHealth(id, health) ==
    /\ IF id \in DOMAIN entities
       THEN LET was_alive == entities[id].is_alive
                e == EntityUpdateHealth(entities[id], health)
            IN  /\ entities' = [entities EXCEPT ![id] = e]
                /\ eres' = [ret |-> "ok", died |-> was_alive /\ ~e.is_alive]
       ELSE /\ eres' = [ret |-> "none", died |-> FALSE]
            /\ UNCHANGED entities
    /\ UNCHANGED <<envVars, cacheVars, sessVars, authVars, genVars, addVars, sweep>>

\* EntityStateManager::add_item; a call that panics returns nothing.
AddItem(id, item_id, quantity, wraps) ==
    /\ IF id \in DOMAIN entities
       THEN LET r == InventoryAddItem(entities[id].inventory, item_id, quantity, wraps)
            IN  /\ entities' = [entities EXCEPT ![id].inventory = r.inv]
                /\ eres' = IF r.panicked THEN eres
                           ELSE [ret |-> IF r.ok THEN "ok" ELSE "failed", died |-> FALSE]
       ELSE /\ eres' = [ret |-> "none", died |-> FALSE]
            /\ UNCHANGED entities
    /\ UNCHANGED <<envVars, cacheVars, sessVars, authVars, genVars, addVars, sweep>>

\* EntityStateManager::remove_item
RemoveItem(id, item_id, quantity) ==
    /\ IF id \in DOMAIN entities
       THEN LET r == InventoryRemoveItem(entities[id].inventory, item_id, quantity)
            IN  /\ entities' = [entities EXCEPT ![id].inventory = r.inv]
                /\ eres' = [ret |-> IF r.ok THEN "ok" ELSE "failed", died |-> FALSE]
       ELSE /\ eres' = [ret |-> "none", died |-> FALSE]
            /\ UNCHANGED entities
    /\ UNCHANGED <<envVars, cacheVars, sessVars, authVars, genVars, addVars, sweep>>

\* The monotonic clock moves on by one period of the cleanup task.
Elapse ==
    /\ instant + CleanupInterval <= Warm + MaxInstant * CleanupInterval
    /\ instant' = instant + CleanupInterval
    /\ UNCHANGED <<envVars, tokens, th, mgr, sessVars, authVars, genVars, addVars, entVars>>

(* cleanup_stale_entities: the ids of the stale entities are collected, in  *)
(* the order the map yields them.                                           *)
CleanupScan ==
    /\ sweep.pc = "idle"
    /\ LET stale == {id \in DOMAIN entities : IsStale(entities[id])}
       IN  \E ids \in {q \in [1..Cardinality(stale) -> stale] :
                         \A i, j \in DOMAIN q : q[i] = q[j] => i = j} :
              sweep' = [pc |-> IF stale = {} THEN "idle" ELSE "removing",
                        ids |-> ids, next |-> 1]
    /\ UNCHANGED <<envVars, cacheVars, sessVars, authVars, genVars, addVars, entities, eres>>

(* cleanup_stale_entities: remove_entity on the next collected id; after    *)
(* the last one the collected ids are returned and the task sleeps again.   *)
CleanupRemove ==
    /\ sweep.pc = "removing"
    /\ entities' = [x \in DOMAIN entities \ {sweep.ids[sweep.next]} |-> entities[x]]
    /\ sweep' = IF sweep.next = Len(sweep.ids)
                THEN [pc |-> "idle", ids |-> <<>>, next |-> 1]
                ELSE [sweep EXCEPT !.next = @ + 1]
    /\ UNCHANGED <<envVars, cacheVars, sessVars, authVars, genVars, addVars, eres>>

(* main: ctrl_c completes its select!, main returns and the runtime is      *)
(* dropped with it: every task that is still alive, each handshake and      *)
(* each ws_loop among them, is dropped where it waits, with its socket.     *)
CtrlC ==
    /\ server = "running"
    /\ server' = "stopped"
    /\ conn' = [c \in Threads |->
                  IF conn[c].pc \in {"verifying", "upgraded", "open"}
                  THEN [conn[c] EXCEPT !.pc = "dropped"]
                  ELSE conn[c]]
    /\ th' = [t \in Threads |-> IdleThread]
    /\ UNCHANGED <<tokens, instant, mgr, envVars, authVars, genVars, addVars, entVars>>

(* --------------------------- specifications ---------------------------- *)

(* --------------------------- world generation -------------------------- *)

\* The generators built by EnvironmentGenerator::new: two from main()'s
\* seed and chunk size, one from another seed.
Generators ==
    [g \in {"g1", "g2", "g3"} |->
        [seed |-> IF g = "g3" THEN 777 ELSE 12345, chunk_size |-> ChunkSize]]

\* The chunks generate_chunk is asked for.
GenChunks == { <<0, 0>>, <<1, 0>>, <<0 - 1, 0>> }

\* mix_seed, in 12 bits for the source's 64 (the three constants are the
\* top 12 bits of the source's, the rotation is 5 for 27): a negative
\* coordinate becomes its two's complement, products wrap, and the result
\* is base xor-ed and rotated with them.
MixSeed(base, x, z) ==
    LET W == 4096
        RECURSIVE Xor(_, _, _)
        Xor(a, b, n) == IF n = 0 THEN 0
                        ELSE ((a + b) % 2) + 2 * Xor(a \div 2, b \div 2, n - 1)
        RotateLeft(h, r) == ((h * (2 ^ r)) % W) + (h \div (2 ^ (12 - r)))
        h1 == Xor(base % W, 2531, 12)
        h2 == Xor(h1, ((x % W) * 3061) % W, 12)
        h3 == RotateLeft(h2, 5)
    IN  Xor(h3, ((z % W) * 2381) % W, 12)

\* An rng that goes on from where the earlier call left it.
CarriedRng(previous, chunk_seed) == previous

\* The rng a generate_chunk call draws from: ChaCha8Rng::seed_from_u64 on
\* the chunk's seed, whatever state the rng of an earlier call ended in.
FreshRng(previous, chunk_seed) == chunk_seed

\* rng.gen_range over n values: the rng steps (a linear congruential step
\* stands for the ChaCha8 block function) and yields a value below n.
GenRange(rng, n) ==
    LET next == (rng * 37 + 11) % 4096
    IN  [rng |-> next, value |-> (next \div 8) % n]

\* FastNoiseLite::get_noise_2d of the noise seeded with noise_seed, mapped
\* from [-1, 1] to [0, 1] and counted in hundredths.
Density(noise_seed, x, z) == (noise_seed * 31 + x * 17 + z * 13) % 101

\* The decimal digits of |n|, with no sign.
DecimalAbs(n) ==
    LET RECURSIVE Digits(_)
        Digits(m) ==
            LET d == <<"0", "1", "2", "3", "4", "5", "6", "7", "8", "9">>[(m % 10) + 1]
            IN  IF m < 10 THEN <<d>> ELSE Digits(m \div 10) \o <<d>>
    IN  Digits(IF n < 0 THEN 0 - n ELSE n)

\* Display of an integer, as format!("{}") writes it: a '-' for a negative
\* number, then the decimal digits.
Decimal(n) == IF n < 0 THEN <<"-">> \o DecimalAbs(n) ELSE DecimalAbs(n)

\* format!("<kind>_{}_{}_idx_{}", chunk.x, chunk.z, index), as the sequence
\* of its pieces.
ObjectId(kind, chunk, index) ==
    <<kind, "_">> \o Decimal(chunk[1]) \o <<"_">> \o Decimal(chunk[2])
        \o <<"_", "idx", "_">> \o Decimal(index)

\* generate_tree / generate_rock / generate_bush / generate_grass: x and z
\* are drawn inside the chunk; a tree, a rock and a bush then draw their
\* asset, rotation, scale and resource amount, a grass patch nothing more.
\* `run` is the call's rng and the objects pushed so far.
GenerateOne(kind, run, chunk, index) ==
    LET dx == GenRange(run.rng, ChunkSize)
        dz == GenRange(dx.rng, ChunkSize)
        asset == GenRange(dz.rng, 2)
        rot == GenRange(asset.rng, 360)
        scale == GenRange(rot.rng, 40)
        low  == CASE kind = "tree" -> 3 [] kind = "rock" -> 2 [] OTHER -> 1
        span == CASE kind = "tree" -> 6 [] kind = "rock" -> 5 [] kind = "bush" -> 4
                  [] OTHER -> 1
        amount == GenRange(scale.rng, span)
    IN  [rng |-> IF kind = "grass" THEN dz.rng ELSE amount.rng,
         objects |-> Append(run.objects,
            [object_id |-> ObjectId(kind, chunk, index),
             position |-> Pos(chunk[1] * ChunkSize + dx.value, 0,
                              chunk[2] * ChunkSize + dz.value),
             resource_amount |-> IF kind = "grass" THEN 1 ELSE low + amount.value])]

\* The loop `for i in 0..count` of generate_chunk for one kind of object.
\* (The test of run.rng, which is never negative, has TLC compute one
\* round's run before it enters the next.)
RECURSIVE GenerateMany(_, _, _, _, _)
GenerateMany(kind, run, chunk, count, i) ==
    IF i >= count \/ run.rng < 0 THEN run
    ELSE GenerateMany(kind, GenerateOne(kind, run, chunk, i), chunk, count, i + 1)

\* EnvironmentGenerator::generate_chunk of a generator with this seed:
\* the counts of trees, rocks and bushes come from the noise at the chunk's
\* centre, the count of grass patches from the rng; `previous` is where the
\* rng of the call before ended.
GenerateChunk(seed, chunk, previous) ==
    LET cx == chunk[1] * ChunkSize + ChunkSize \div 2
        cz == chunk[2] * ChunkSize + ChunkSize \div 2
        tree_count == 2 + (Density(seed, cx, cz) * 18) \div 100
        rock_count == (Density(seed + 2000, cx, cz) * 12) \div 100
        bush_count == 3 + (Density(seed + 3000, cx, cz) * 22) \div 100
        start == [rng |-> FreshRng(previous, MixSeed(seed, chunk[1], chunk[2])),
                  objects |-> <<>>]
        trees == GenerateMany("tree", start, chunk, tree_count, 0)
        rocks == GenerateMany("rock", trees, chunk, rock_count, 0)
        bushes == GenerateMany("bush", rocks, chunk, bush_count, 0)
        grass == GenRange(bushes.rng, 21)
    IN  GenerateMany("grass", [bushes EXCEPT !.rng = grass.rng], chunk,
                     10 + grass.value, 0)

\* EnvironmentGenerator::generate_area: generate_chunk for each chunk of
\* the square, dx outer and dz inner, the results appended.
\* (The test of before.rng is, as in GenerateMany, never true.)
RECURSIVE GenerateArea(_, _, _, _)
GenerateArea(seed, chunks, n, previous) ==
    IF n = 0 THEN [rng |-> previous, objects |-> <<>>]
    ELSE LET before == GenerateArea(seed, chunks, n - 1, previous)
             here == GenerateChunk(seed, chunks[n], before.rng)
         IN  IF before.rng < 0 THEN before
             ELSE [rng |-> here.rng, objects |-> before.objects \o here.objects]

\* Where the rng of the last call ended (0 before any call).
LastRng == IF made = <<>> THEN 0 ELSE made[Len(made)].rng

GenInit == made = <<>>

(* generator.generate_chunk(&chunk) returns. *)
GenerateChunkCall(g, chunk) ==
    /\ Len(made) < MaxCalls
    /\ LET r == GenerateChunk(Generators[g].seed, chunk, LastRng)
       IN  made' = Append(made, [gen |-> g, chunks |-> <<chunk>>,
                                 objects |-> r.objects, rng |-> r.rng])
    /\ UNCHANGED <<envVars, cacheVars, sessVars, authVars, entVars, addVars>>

(* generator.generate_area(&center, radius) returns. *)
GenerateAreaCall(g, center, radius) ==
    /\ Len(made) < MaxCalls
    /\ LET chunks == Neighbors(center, radius)
           r == GenerateArea(Generators[g].seed, chunks, Len(chunks), LastRng)
       IN  made' = Append(made, [gen |-> g, chunks |-> chunks,
                                 objects |-> r.objects, rng |-> r.rng])
    /\ UNCHANGED <<envVars, cacheVars, sessVars, authVars, entVars, addVars>>

\* EntityStateManager::new, and run_cleanup_task before its first tick.
EntInit ==
    /\ entities = <<>>
    /\ sweep = [pc |-> "idle", ids |-> <<>>, next |-> 1]
    /\ eres = [ret |-> "none", died |-> FALSE]

Init == EnvInit /\ CacheInit /\ SessInit /\ AuthInit /\ EntInit /\ GenInit /\ AddInit

CacheNext ==
    \/ Tick
    \/ \E tok \in VerifyTokens : VerifyBegin("c1", tok)
    \/ VerifyFirst("c2", OtherToken)
    \/ \E t \in Threads : GetRead(t)
    \/ \E t \in Threads : GetRemove(t)
    \/ \E t \in Threads : CallSupabase(t)
    \/ \E t \in Threads : InsertLen(t)
    \/ \E t \in Threads : EvictSnapshot(t)
    \/ \E t \in Threads : EvictRemove(t)
    \/ \E t \in Threads : InsertPut(t)
    \/ MgrTick
    \/ MgrCleanupScan
    \/ MgrCleanupRemove
    \/ MgrCheckSize
    \/ MgrEvictArg
    \/ MgrEvictSnapshot
    \/ MgrEvictRemove

CacheSpec == Init /\ [][CacheNext]_vars

\* One step of run_manager.
MgrStep ==
    \/ MgrTick
    \/ MgrCleanupScan
    \/ MgrCleanupRemove
    \/ MgrCheckSize
    \/ MgrEvictArg
    \/ MgrEvictSnapshot
    \/ MgrEvictRemove

\* run_manager is a spawned task whose interval fires for ever and whose
\* tick is straight-line code: its next step is taken once it can be.
CacheFairSpec == CacheSpec /\ WF_vars(MgrStep)

SessionNext ==
    \/ Tick
    \/ \E h \in HeaderValues, q \in QueryValues : WsUpgrade("c1", h, q)
    \/ WsUpgrade("c2", Bearer(Jwt(1)), None)
    \/ \E c \in Threads : GetRead(c)
    \/ \E c \in Threads : GetRemove(c)
    \/ \E c \in Threads : CallSupabase(c)
    \/ \E c \in Threads : InsertLen(c)
    \/ \E c \in Threads : EvictSnapshot(c)
    \/ \E c \in Threads : EvictRemove(c)
    \/ \E c \in Threads : InsertPut(c)
    \/ \E c \in Threads : WsVerified(c)
    \/ \E c \in Threads, sendOk \in BOOLEAN : WsWelcome(c, sendOk)
    \/ \E c \in Threads : \E f \in FramesOf(c), sendOk \in BOOLEAN : WsFrame(c, f, sendOk)

SessionSpec == Init /\ [][SessionNext]_vars

\* One websocket client with any header and query, whose stream ends once
\* it is open, beside requests that pass auth_middleware.
HandshakeNext ==
    \/ Tick
    \/ \E h \in HeaderValues, q \in QueryValues : WsUpgrade("c1", h, q)
    \/ GetRead("c1")
    \/ GetRemove("c1")
    \/ CallSupabase("c1")
    \/ InsertLen("c1")
    \/ EvictSnapshot("c1")
    \/ EvictRemove("c1")
    \/ InsertPut("c1")
    \/ WsVerified("c1")
    \/ \E sendOk \in BOOLEAN : WsWelcome("c1", sendOk)
    \/ WsFrame("c1", Msg("End", <<>>), TRUE)
    \/ \E h \in HeaderValues, outcome \in ValidateOutcomes : AuthMiddleware("c2", h, outcome)

HandshakeSpec == Init /\ [][HandshakeNext]_vars

\* One websocket client with a bearer token, every frame it may send, and
\* the signal that stops the process.
ShutdownNext ==
    \/ Tick
    \/ \E tok \in {Jwt(1), Jwt(3)} : WsUpgrade("c1", Bearer(tok), None)
    \/ GetRead("c1")
    \/ GetRemove("c1")
    \/ CallSupabase("c1")
    \/ InsertLen("c1")
    \/ EvictSnapshot("c1")
    \/ EvictRemove("c1")
    \/ InsertPut("c1")
    \/ WsVerified("c1")
    \/ \E sendOk \in BOOLEAN : WsWelcome("c1", sendOk)
    \/ \E f \in ClientFrames, sendOk \in BOOLEAN : WsFrame("c1", f, sendOk)
    \/ CtrlC

ShutdownSpec == Init /\ [][ShutdownNext]_vars

\* The registry begins empty, or in use: with a player who joined at the
\* clock's first reading and has since filled all slots but one, each with
\* an item of its own.
EntityInit ==
    /\ EnvInit /\ CacheInit /\ tokens = <<>> /\ SessInit /\ AuthInit /\ GenInit /\ AddInit
    /\ entities \in
         {<<>>,
          (<<"user", 1>> :>
             [NewEntity("Player", Some("mail"), 100) EXCEPT
                 !.inventory.items = [k \in 1..(DefaultMaxSlots - 1) |->
                                        InventoryItem(<<"loot", k>>, 1)]])}
    /\ sweep = [pc |-> "idle", ids |-> <<>>, next |-> 1]
    /\ eres = [ret |-> "none", died |-> FALSE]

EntityNext ==
    \/ Elapse
    \/ AddPlayer(<<"user", 1>>, Some("mail"))
    \/ AddNpc(<<"mob", 1>>)
    \/ AddEnemy(<<"mob", 1>>)
    \/ \E health \in Healths : AddBoss(<<"mob", 1>>, health)
    \/ \E id \in EntityIds : UpdatePosition(id, Pos(1, 0, 0))
    \/ \E id \in EntityIds, health \in Healths : UpdateHealth(id, health)
    \/ CleanupScan
    \/ CleanupRemove

EntitySpec == EntityInit /\ [][EntityNext]_vars

\* The calls that create entities and those on their inventories.
InventoryNext ==
    \/ AddPlayer(<<"user", 1>>, Some("mail"))
    \/ AddNpc(<<"mob", 1>>)
    \/ AddEnemy(<<"mob", 1>>)
    \/ AddBoss(<<"mob", 1>>, 50)
    \/ \E id \in EntityIds, item_id \in {<<"wood", 0>>, <<"ore", 0>>} :
         \E quantity \in {0, 1, QuantityMax}, wraps \in BOOLEAN :
            AddItem(id, item_id, quantity, wraps)
    \/ \E id \in EntityIds, item_id \in {<<"wood", 0>>, <<"ore", 0>>} :
         \E quantity \in {0, 1, QuantityMax} :
            RemoveItem(id, item_id, quantity)

InventorySpec == EntityInit /\ [][InventoryNext]_vars

\* The registry used by one caller at a time: cleanup_stale_entities runs
\* from its scan to its last removal with no other call in between, and
\* the other calls, inventory calls among them, are made while it sleeps.
SweepNext ==
    \/ /\ sweep.pc = "idle"
       /\ \/ Elapse
          \/ AddPlayer(<<"user", 1>>, Some("mail"))
          \/ AddNpc(<<"mob", 1>>)
          \/ AddEnemy(<<"mob", 2>>)
          \/ AddBoss(<<"mob", 2>>, 50)
          \/ \E id \in EntityIds : UpdatePosition(id, Pos(1, 0, 0))
          \/ \E id \in EntityIds : UpdateHealth(id, 50)
          \/ AddItem(<<"mob", 1>>, <<"wood", 0>>, 1, TRUE)
          \/ RemoveItem(<<"mob", 1>>, <<"wood", 0>>, 1)
          \/ CleanupScan
    \/ CleanupRemove

SweepSpec == EntityInit /\ [][SweepNext]_vars

FrameSpec == Init /\ [][FrameNext]_vars

Spec == Init /\ [][Next]_vars

InterestSpec == Init /\ [][InterestNext]_vars

MoveSpec == Init /\ [][MoveNext]_vars

BuildSpec == Init /\ [][BuildNext]_vars

AddSpec == Init /\ [][AddNext]_vars

\* DueWorld at second 179, 180 or 181.
DueInit ==
    /\ now \in {179, 180, 181}
    /\ objects = [id \in {DueWorld[i].object_id : i \in 1..Len(DueWorld)} |->
                    DueWorld[CHOOSE i \in 1..Len(DueWorld) : DueWorld[i].object_id = id]]
    /\ chunk_objects = (<<0, 0>> :> [i \in 1..Len(DueWorld) |-> DueWorld[i].object_id])
    /\ player_chunks = <<>>
    /\ hres = NoResponse
    /\ rd = [t \in Tasks |-> IdleQuery]
    /\ hsince = [t \in Tasks |-> {}]
    /\ sched = IdleSched
    /\ CacheInit /\ tokens = <<>> /\ SessInit /\ AuthInit /\ EntInit /\ GenInit /\ AddInit

DueSpec == DueInit /\ [][DueNext]_vars

CallSpec == Init /\ [][CallNext]_vars

\* The clock advances, and start_respawn_task is a spawned task whose
\* interval fires for ever and whose loop body is straight-line code: each
\* of its steps is taken once it can be.
RespawnFairSpec ==
    /\ Init /\ [][FairNext]_vars
    /\ WF_vars(Tick)
    /\ WF_vars(RespawnTick) /\ WF_vars(RespawnScan)
    /\ WF_vars(RespawnCollected) /\ WF_vars(RespawnNext)

\* The generators' calls: g1 and g2, built alike, g3 built from another
\* seed, each asked for single chunks; g1 also for the area around (0,0).
GenNext ==
    \/ \E g \in DOMAIN Generators, chunk \in GenChunks : GenerateChunkCall(g, chunk)
    \/ GenerateAreaCall("g1", <<0, 0>>, 1)

GenSpec == Init /\ [][GenNext]_vars

(* ------------------------- environment claims -------------------------- *)

ObjectChunk(id) == FromPosition(objects[id].position, ChunkSize)

\* The chunks whose objects a query puts in its spawn message.
SpawnChunks(q) == IF q.op = "initial" THEN q.new ELSE q.new \ q.old

\* C1: no spawn payload of initial_interest / update_interest holds an object
\* that has been harvested ever since before the query began (harvested when
\* it began and not respawned since), whatever harvests and respawns run
\* between the query's steps.
C1_SpawnExcludesHarvested ==
    \A t \in Tasks : \A i \in 1..Len(rd[t].spawn) :
        rd[t].spawn[i].object_id \notin hsince[t]

\* C1 witness: a query has returned whose spawn chunks hold an object that
\* was harvested all through the query.
C1_Witness ==
    \E t \in Tasks :
        /\ rd[t].pc = "done"
        /\ rd[t].has_spawn
        /\ \E id \in hsince[t] : ObjectChunk(id) \in SpawnChunks(rd[t])

\* The last harvest request named an object of the registry and stood
\* farther than max_harvest_range from it.
FarRequest(r) ==
    /\ r.object_id \in DOMAIN objects
    /\ DistanceSq(objects[r.object_id].position, r.request_position)
         > MaxHarvestRange * MaxHarvestRange

ErrorKind(r) == IF IsSome(r.error_message) THEN Unwrap(r.error_message)[1] ELSE "none"

\* C2 as claimed: a request from farther than max_harvest_range fails with
\* "Too far", in whatever state the object is.
C2_FarAlwaysTooFar ==
    FarRequest(hres) => (~hres.success /\ ErrorKind(hres) = "Too far")

\* C2 amended: a request from farther than max_harvest_range always fails and
\* leaves the registry as it was; the error is "Too far" when the object is
\* not harvested and "Already harvested" when it is.
C2_FarRequestFails ==
    [][ (hres' # hres /\ FarRequest(hres')) =>
          /\ ~hres'.success
          /\ objects' = objects
          /\ ErrorKind(hres') =
               IF objects[hres'.object_id].is_harvested
               THEN "Already harvested" ELSE "Too far" ]_vars

\* C2 witness: a request that is too far only by its height (8, 7, 0 from the
\* grass) was answered "Too far".
C2_Witness ==
    /\ FarRequest(hres)
    /\ hres.request_position = Pos(17, 7, 25)
    /\ ErrorKind(hres) = "Too far"
    /\ ~objects[hres.object_id].is_harvested

\* C3: harvest reports the first failing check in the order exists,
\* not-already-harvested, in-range (distance equal to the range is in range);
\* otherwise it succeeds with the object's resource and marks it harvested.
C3_HarvestCheckOrder ==
    [][ hres' # hres =>
          LET r == hres'
              id == r.object_id
          IN  IF id \notin DOMAIN objects
              THEN ~r.success /\ ErrorKind(r) = "Object not found" /\ objects' = objects
              ELSE IF objects[id].is_harvested
              THEN ~r.success /\ ErrorKind(r) = "Already harvested" /\ objects' = objects
              ELSE IF DistanceSq(objects[id].position, r.request_position)
                        > MaxHarvestRange * MaxHarvestRange
              THEN ~r.success /\ ErrorKind(r) = "Too far" /\ objects' = objects
              ELSE /\ r.success
                   /\ r.error_message = None
                   /\ r.resource_type = objects[id].resource_type
                   /\ r.resource_amount = objects[id].resource_amount
                   /\ objects'[id].is_harvested ]_vars

\* C3 witness: a request from exactly max_harvest_range away succeeded.
C3_Witness ==
    /\ hres.success
    /\ DistanceSq(objects[hres.object_id].position, hres.request_position)
         = MaxHarvestRange * MaxHarvestRange
    /\ objects[hres.object_id].is_harvested

\* C4: in every state a harvested object has its harvested_at, and while an
\* object stays harvested its harvested_at does not change, so every reader
\* of one harvest sees the same timestamp.
C4_HarvestedHasTimestamp ==
    /\ [](\A id \in DOMAIN objects :
             objects[id].is_harvested => IsSome(objects[id].harvested_at))
    /\ [][ \A id \in DOMAIN objects :
             (objects[id].is_harvested /\ objects'[id].is_harvested)
                => objects'[id].harvested_at = objects[id].harvested_at ]_vars

\* C4 witness: an object is harvested, with the clock past its harvested_at.
C4_Witness ==
    \E id \in DOMAIN objects :
        /\ objects[id].is_harvested
        /\ objects[id].harvested_at = Some(1)
        /\ now > 1

(* ------------------------- token cache claims -------------------------- *)

CacheSize == Cardinality(DOMAIN tokens)

\* C5: lookup returns the cached Principal exactly when the token is cached
\* and now < expires_at; a cached entry with now >= expires_at is removed by
\* the lookup, which then returns nothing.
C5_LookupIffLive ==
    [][ \A t \in Threads :
          LET tok == th[t].token
              live == tok \in DOMAIN tokens /\ now < tokens[tok].expires_at
              returned == th'[t].pc = "done" /\ th'[t].result.ok
          IN  /\ (th[t].pc = "get" /\ th'[t].pc # "get") =>
                    /\ returned <=> live
                    /\ returned => /\ th'[t].result.info = tokens[tok]
                                   /\ now < th'[t].result.info.expires_at
                    /\ (tok \in DOMAIN tokens /\ ~live) => th'[t].pc = "remove"
                    /\ tokens' = tokens
              /\ (th[t].pc = "remove" /\ th'[t].pc # "remove") =>
                    /\ tok \notin DOMAIN tokens'
                    /\ th'[t].pc = "api" ]_vars

\* C5 witness: a lookup found its token cached at the very second it
\* expires, and is about to remove it.
C5_Witness ==
    \E t \in Threads :
        /\ th[t].pc = "remove"
        /\ th[t].token \in DOMAIN tokens
        /\ tokens[th[t].token].expires_at = now

C7_BoundedAtQuiescence ==
    /\ [][ (mgr.pc # "sleep" /\ mgr'.pc = "sleep" /\ mgr'.quiet) =>
             /\ \A k \in DOMAIN tokens' : tokens'[k].expires_at > mgr'.now
             /\ Cardinality(DOMAIN tokens') <= MAX_CACHE_SIZE ]_vars
    /\ <>[](CacheSize <= MAX_CACHE_SIZE \/ mgr.pc = "panicked")

\* C7 witness: an undisturbed tick has ended that found the cache over MAX
\* and evicted down to it.
C7_Witness ==
    /\ mgr.pc = "sleep"
    /\ mgr.quiet
    /\ mgr.evicted > 0
    /\ CacheSize = MAX_CACHE_SIZE

\* C8: an entry is written to the cache only by the last step of a verify
\* call that returns Ok, and the step on which a call returns an error leaves
\* the cache as it was: a call that ends in an error has added nothing.
C8_OnlySuccessCached ==
    [][ /\ \A k \in DOMAIN tokens' :
             (k \notin DOMAIN tokens \/ tokens'[k] # tokens[k]) =>
                \E t \in Threads :
                    /\ th[t].pc = "put"
                    /\ th'[t].pc = "done"
                    /\ th'[t].token = k
                    /\ th'[t].result.ok
                    /\ th'[t].result.info = tokens'[k]
        /\ \A t \in Threads :
             (th[t].pc # "done" /\ th'[t].pc = "done" /\ ~th'[t].result.ok) =>
                /\ tokens' = tokens
                /\ th[t].pc = "api" ]_vars

\* C8 witness: a verify call has returned the error of a token without exp
\* while other tokens are cached, and the token is not in the cache.
C8_Witness ==
    \E t \in Threads :
        /\ th[t].pc = "done"
        /\ th[t].result.cause = "noexp"
        /\ ~th[t].result.ok
        /\ tokens # <<>>
        /\ th[t].token \notin DOMAIN tokens

(* --------------------------- session claims ---------------------------- *)

\* The step on which ws_upgrade answers connection c's handshake.
Answered(c) == conn[c].pc = "verifying" /\ conn'[c].pc # "verifying"

C10_OpenOnlyIfVerified ==
    /\ [][ \A c \in Threads :
             Answered(c) =>
                /\ conn'[c].status = 101 <=>
                     (th[c].result.ok /\ now < th[c].result.info.expires_at)
                /\ (th[c].result.ok /\ th[c].result.info.expires_at <= now) =>
                     (conn'[c].status = 401 /\ conn'[c].pc = "rejected")
                /\ conn'[c].status = 101 =>
                     /\ conn'[c].auth_user.user_id = th[c].result.info.user_id
                     /\ conn'[c].auth_user.role = th[c].result.info.role ]_vars
    /\ [](\A c \in Threads :
            /\ (conn[c].pc = "open" \/ conn[c].sent # <<>> \/ conn[c].message_count > 0)
                  => conn[c].status = 101
            /\ conn[c].pc = "open" => conn[c].sent # <<>>
            /\ conn[c].message_count > 0 => conn[c].sent # <<>>
            /\ conn[c].sent # <<>> =>
                  /\ conn[c].sent[1].type = "connected"
                  /\ conn[c].sent[1].user_id = conn[c].auth_user.user_id
                  /\ conn[c].sent[1].role = conn[c].auth_user.role
                  /\ \A i \in 2..Len(conn[c].sent) : conn[c].sent[i].type # "connected")

\* C10 witness: one connection is open and has answered a frame after its
\* welcome, while another was answered 401 for an expired TokenInfo.
C10_Witness ==
    /\ conn["c1"].pc = "open"
    /\ Len(conn["c1"].sent) >= 2
    /\ conn["c2"].pc = "rejected"
    /\ conn["c2"].error = "Token expired"
    /\ conn["c2"].status = 401

\* A header that starts with "Bearer ".
HasBearer(h) == IsSome(h) /\ Unwrap(h).scheme = "Bearer "

\* C11: a websocket request with no Authorization header and no token query
\* is answered 401 with no call of the cache's verify, no change of the cache
\* and nothing sent on a socket; the auth module's extractor answers
\* MissingToken without the header and InvalidToken for a header that does
\* not start with "Bearer ", both as a 401.
C11_NoTokenIs401 ==
    [][/\ WsUpgrade("c1", None, None) =>
            /\ conn'["c1"].pc = "rejected"
            /\ conn'["c1"].status = 401
            /\ conn'["c1"].sent = <<>>
            /\ th' = th
            /\ tokens' = tokens
       /\ \A h \in HeaderValues, outcome \in ValidateOutcomes :
            AuthMiddleware("c2", h, outcome) /\ ~HasBearer(h) =>
                /\ mw'["c2"].status = 401
                /\ mw'["c2"].error = IF IsSome(h) THEN "InvalidToken" ELSE "MissingToken"]_vars

\* C11 witness: the websocket request without a token was refused while no
\* verify ran, and the middleware refused a request for its missing header.
C11_Witness ==
    /\ conn["c1"].pc = "rejected"
    /\ conn["c1"].error = "Missing or invalid auth token"
    /\ th["c1"].pc = "idle"
    /\ mw["c2"] = MwAnswer(401, "MissingToken", <<"user", 0>>)

\* C12: the token handed to verify is the text after "Bearer " whenever the
\* header starts with it, whatever the query carries; the query's token is
\* handed over only when the header yields none.
C12_HeaderBeforeQuery ==
    [][\A h \in HeaderValues, q \in QueryValues :
         WsUpgrade("c1", h, q) =>
            /\ HasBearer(h) => th'["c1"].pc = "get" /\ th'["c1"].token = Unwrap(h).rest
            /\ ~HasBearer(h) /\ IsSome(q) => th'["c1"].pc = "get" /\ th'["c1"].token = Unwrap(q)
            /\ (th'["c1"].pc = "get" /\ IsSome(q) /\ th'["c1"].token = Unwrap(q))
                 => (~HasBearer(h) \/ Unwrap(h).rest = Unwrap(q))]_vars

\* C12 witness: verify is running on a token that only a header carries,
\* and, in another state, on one that only a query carries.
C12_Witness ==
    /\ conn["c1"].pc = "verifying"
    /\ th["c1"].pc = "get"
    /\ th["c1"].token = Jwt(1)
    /\ Jwt(1) \notin {Unwrap(q) : q \in QueryValues \ {None}}

\* C13: in an open session every inbound frame is answered by its kind, once:
\* a text holding "type":"ping" by a pong and no echo, any other text by an
\* echo with the session's user_id and the text, a binary frame by the same
\* bytes, a Ping by a Pong of the same payload; a Close is not answered and
\* ends the loop.
C13_ReplyByKind ==
    [][\A f \in ClientFrames :
         WsFrame("c1", f, TRUE) =>
            LET before == conn["c1"].sent
                after == conn'["c1"].sent
                uid == conn["c1"].auth_user.user_id
                isPing == \E i \in DOMAIN f.data : f.data[i] = "\"type\":\"ping\""
            IN  /\ f.kind = "Text" /\ isPing =>
                     /\ Len(after) = Len(before) + 1
                     /\ SubSeq(after, 1, Len(before)) = before
                     /\ after[Len(after)].type = "pong"
                /\ f.kind = "Text" /\ ~isPing =>
                     after = Append(before, Frame("echo", uid, "none", f.data))
                /\ f.kind = "Binary" =>
                     after = Append(before, Frame("binary", NoUser, "none", f.data))
                /\ f.kind = "Ping" =>
                     after = Append(before, Frame("Pong", NoUser, "none", f.data))
                /\ f.kind = "Close" =>
                     after = before /\ conn'["c1"].pc = "ended"
                /\ f.kind \in {"Text", "Binary", "Ping"} => conn'["c1"].pc = "open"]_vars

\* C13 witness: an open session has answered its first frame, a text that
\* holds the ping tag, with a pong right after its welcome.
C13_Witness ==
    /\ conn["c1"].pc = "open"
    /\ conn["c1"].message_count = 1
    /\ Len(conn["c1"].sent) = 2
    /\ conn["c1"].sent[2].type = "pong"

\* C14: once an open session has received a text frame of type join, the
\* entity registry holds a Player whose entity_id is the session's user_id.
C14_JoinRegistersPlayer ==
    [][\A sendOk \in BOOLEAN :
         WsFrame("c1", Msg("Text", <<"{", "\"type\":\"join\"", "}">>), sendOk) =>
            LET uid == conn["c1"].auth_user.user_id
            IN  /\ uid \in DOMAIN entities'
                /\ entities'[uid].entity_type = "Player"]_vars

\* C15: once the process has been told to stop, every session that was open
\* then has sent a close frame as the last thing before it went away.
C15_ShutdownSendsClose ==
    \A c \in Threads :
        (server = "stopped" /\ conn[c].pc = "dropped" /\ conn[c].sent # <<>>) =>
            conn[c].sent[Len(conn[c].sent)].type = "close"

\* C16: every entity the registry holds is alive exactly when its health is
\* above 0.
C16_AliveIffHealthy ==
    \A id \in DOMAIN entities : entities[id].is_alive <=> entities[id].health > 0

\* C17: update_health(id, h) on an entity the registry holds stores h
\* clamped to [0, 100], sets is_alive to whether the clamped value is above
\* 0, and warns that the entity died exactly when it was alive before the
\* call and is not after it.
C17_UpdateHealthClamps ==
    [][\A id \in EntityIds, h \in Healths :
         (UpdateHealth(id, h) /\ id \in DOMAIN entities) =>
            LET e == entities'[id]
            IN  /\ e.health = (IF h < 0 THEN 0 ELSE IF h > 100 THEN 100 ELSE h)
                /\ 0 <= e.health /\ e.health <= 100
                /\ e.is_alive <=> e.health > 0
                /\ eres'.died <=> (entities[id].is_alive /\ ~e.is_alive)]_vars

\* C17 witness: a call has brought a living player to health 0 and warned
\* of its death.
C17_Witness ==
    /\ eres = [ret |-> "ok", died |-> TRUE]
    /\ <<"user", 1>> \in DOMAIN entities
    /\ entities[<<"user", 1>>].health = 0
    /\ ~entities[<<"user", 1>>].is_alive

\* C18: no slot of any entity's inventory has quantity 0.
C18_NoEmptySlot ==
    \A id \in DOMAIN entities :
        \A i \in DOMAIN entities[id].inventory.items :
            entities[id].inventory.items[i].quantity # 0

\* C19: an inventory with max_slots > 0 never holds more slots than that,
\* and every entity, of whatever kind, has max_slots 20.
C19_SlotsWithinMax ==
    \A id \in DOMAIN entities :
        LET inv == entities[id].inventory
        IN  /\ inv.max_slots = 20
            /\ inv.max_slots > 0 => Len(inv.items) <= inv.max_slots

\* C19 witness: an inventory holds max_slots slots and an add_item on it
\* has just been refused.
C19_Witness ==
    /\ eres.ret = "failed"
    /\ \E id \in DOMAIN entities :
         Len(entities[id].inventory.items) = entities[id].inventory.max_slots

\* C20: no inventory holds two slots of the same item_id without metadata.
C20_OneStackPerItem ==
    \A id \in DOMAIN entities :
        LET items == entities[id].inventory.items
        IN  \A i, j \in DOMAIN items :
                (/\ items[i].item_id = items[j].item_id
                 /\ items[i].metadata = None
                 /\ items[j].metadata = None) => i = j

\* C20 witness: an inventory holds a wood and an ore slot, the wood one
\* with a quantity no single call names.
C20_Witness ==
    \E id \in DOMAIN entities :
        LET items == entities[id].inventory.items
        IN  /\ Len(items) = 2
            /\ items[1] = InventoryItem(<<"wood", 0>>, 2)
            /\ items[2].item_id = <<"ore", 0>>
            /\ eres.ret = "ok"

\* C21: whatever the inventory of an entity, add_item(m, q) followed by
\* remove_item(m, q) leaves it as it was before the add: same slots, same
\* order, same quantities (an add that does not return has no remove
\* following it).
C21_AddThenRemoveRestores ==
    \A id \in DOMAIN entities :
        \A item_id \in {<<"wood", 0>>, <<"ore", 0>>},
           quantity \in {0, 1, QuantityMax}, wraps \in BOOLEAN :
            LET inv   == entities[id].inventory
                added == InventoryAddItem(inv, item_id, quantity, wraps)
            IN  ~added.panicked =>
                    InventoryRemoveItem(added.inv, item_id, quantity).inv = inv

\* C22: whenever initial_interest or update_interest for player p at pos
\* stores p's interest set, the stored set is exactly the chunks (cx+dx,
\* cz+dz), |dx| <= r and |dz| <= r, around the chunk (cx, cz) whose square
\* [cx*size, (cx+1)*size) x [cz*size, (cz+1)*size) holds pos, at negative
\* coordinates too: (2r+1)^2 = 49 chunks at r = 3.
C22_StoredSquare ==
    [][\A t \in Tasks :
         (InitialStore(t) \/ UpdateStore(t)) =>
            LET pos == rd[t].position
                r   == 3
                floor(v) == CHOOSE c \in (0 - 4)..4 :
                              c * ChunkSize <= v /\ v < (c + 1) * ChunkSize
                cx  == floor(pos.x)
                cz  == floor(pos.z)
            IN  /\ player_chunks'[rd[t].player] =
                     ((cx - r)..(cx + r)) \X ((cz - r)..(cz + r))
                /\ Cardinality(player_chunks'[rd[t].player]) = 49]_vars

\* C22 witness: a query of a player standing at negative coordinates, in
\* chunk (-1,-1), has returned, and the player's stored set reaches from
\* chunk (-4,-4) to chunk (2,2).
C22_Witness ==
    \E t \in Tasks :
        /\ rd[t].pc = "done"
        /\ rd[t].position = Pos(0 - 1, 0, 0 - 1)
        /\ rd[t].player \in DOMAIN player_chunks
        /\ <<0 - 4, 0 - 4>> \in player_chunks[rd[t].player]
        /\ <<2, 2>> \in player_chunks[rd[t].player]
        /\ <<0 - 5, 0>> \notin player_chunks[rd[t].player]

\* C23: when update_interest for player p at pos is called right after an
\* update_interest for p at the same pos has returned, and p's set has not
\* been removed in between, the second call computes no entering and no
\* exiting chunk, returns neither a spawn nor a despawn message, and
\* leaves p's stored set as the first call left it.
C23_RepeatedUpdateIsSilent ==
    [][\A t \in Tasks :
         /\ (/\ rd[t].pc = "done" /\ rd[t].op = "update"
             /\ rd[t].player \in DOMAIN player_chunks
             /\ UpdateBegin(t, rd[t].player, rd[t].position))
              => /\ rd'[t].old = rd[t].new
                 /\ rd'[t].new = rd[t].new
         /\ (UpdateStore(t) /\ rd[t].old = rd[t].new)
              => /\ rd'[t].pc = "done"
                 /\ ~rd'[t].has_spawn /\ rd'[t].spawn = <<>>
                 /\ ~rd'[t].has_despawn /\ rd'[t].despawn = <<>>
                 /\ player_chunks'[rd[t].player] = rd[t].old
                 /\ rd[t].player \in DOMAIN player_chunks
                      => player_chunks' = player_chunks]_vars

\* C23 witness: p2, who only ever calls update_interest, has had a call
\* return that found its stored set equal to the visible one, and got no
\* message.
C23_Witness ==
    \E t \in Tasks :
        /\ rd[t].pc = "done" /\ rd[t].op = "update" /\ rd[t].player = "p2"
        /\ rd[t].old = rd[t].new /\ rd[t].new # {}
        /\ ~rd[t].has_spawn /\ ~rd[t].has_despawn
        /\ "p2" \in DOMAIN player_chunks /\ player_chunks["p2"] = rd[t].new

\* C30: update_interest(p, pos) stores new = visible(pos); when it returns,
\* with old the set it read for p, it has a spawn message iff new \ old is
\* not empty and a despawn message iff old \ new is not empty; the spawn
\* message holds, as network data, objects indexed in the
\* chunks of new \ old: none that was harvested when the call began, and
\* every one that is not harvested; the despawn message holds exactly the
\* ids indexed in the chunks of old \ new, harvested or not.
\* A move of one chunk along +x has 7 entering and 7 exiting chunks.
C30_UpdateDelta ==
    [][\A t \in Tasks :
         /\ UpdateStore(t) => player_chunks'[rd[t].player] = rd[t].new
         /\ (rd'[t].pc = "done" /\ rd'[t].op = "update") =>
              LET q     == rd'[t]
                  enter == q.new \ q.old
                  exit  == q.old \ q.new
                  Indexed(chunks) ==
                      UNION {Range(chunk_objects'[c]) : c \in chunks \cap DOMAIN chunk_objects'}
                  shown == {q.spawn[i].object_id : i \in 1..Len(q.spawn)}
              IN  /\ q.has_spawn <=> enter # {}
                  /\ q.has_despawn <=> exit # {}
                  /\ shown \subseteq Indexed(enter)
                  /\ \A i \in 1..Len(q.spawn) :
                        q.spawn[i] = ToNetworkData(objects'[q.spawn[i].object_id])
                  /\ shown \cap hsince'[t] = {}
                  /\ \A id \in Indexed(enter) : ~objects'[id].is_harvested => id \in shown
                  /\ Range(q.despawn) = Indexed(exit)
                  /\ (q.old # {} /\ q.new = {<<c[1] + 1, c[2]>> : c \in q.old})
                        => Cardinality(enter) = 7 /\ Cardinality(exit) = 7]_vars

\* C30 witness: a player has moved one chunk along +x, from chunk (1,0) to
\* chunk (2,0), while the grass was harvested; the call returned the rock of
\* the entering chunk (5,0) in its spawn message and a despawn message for
\* the seven exiting chunks.
C30_Witness ==
    \E t \in Tasks :
        /\ rd[t].pc = "done" /\ rd[t].op = "update"
        /\ rd[t].position = Pos(125, 0, 25)
        /\ Cardinality(rd[t].new \ rd[t].old) = 7
        /\ Cardinality(rd[t].old \ rd[t].new) = 7
        /\ <<5, 0>> \in rd[t].new \ rd[t].old
        /\ rd[t].has_spawn /\ Len(rd[t].spawn) = 1
        /\ rd[t].has_despawn
        /\ objects["grass_0_0_idx_0"].is_harvested

\* C24: the chunk index mirrors the registry after any sequence of
\* add_object calls, re-adds of an id included: every id of `objects` is
\* indexed exactly once, in the chunk of its current position, and every
\* indexed id is a key of `objects`.
C24_IndexMirrorsObjects ==
    LET Places(id) ==
            UNION {{<<c, i>> : i \in {j \in 1..Len(chunk_objects[c]) : chunk_objects[c][j] = id}}
                     : c \in DOMAIN chunk_objects}
    IN  /\ \A id \in DOMAIN objects :
              /\ Cardinality(Places(id)) = 1
              /\ \A pl \in Places(id) : pl[1] = FromPosition(objects[id].position, ChunkSize)
        /\ \A c \in DOMAIN chunk_objects :
              Range(chunk_objects[c]) \subseteq DOMAIN objects

\* C25: when get_respawnable_object_ids has visited every object, the ids
\* it returns are exactly those of the objects with is_harvested true,
\* harvested_at and respawn_seconds present and now - harvested_at >=
\* respawn_seconds; a bush harvested at 0 with respawn_seconds 180 is not
\* among them at 179 and is at 181.
C25_RespawnableIds ==
    (sched.pc = "scan" /\ DOMAIN objects \subseteq sched.seen) =>
        /\ Range(sched.ids) =
              {id \in DOMAIN objects :
                  /\ objects[id].is_harvested
                  /\ objects[id].harvested_at # None
                  /\ objects[id].respawn_time_seconds # None
                  /\ now - objects[id].harvested_at[1]
                        >= objects[id].respawn_time_seconds[1]}
        /\ \A id \in DOMAIN objects :
              (/\ objects[id].is_harvested
               /\ objects[id].harvested_at = Some(0)
               /\ objects[id].respawn_time_seconds = Some(180))
              => /\ now = 179 => id \notin Range(sched.ids)
                 /\ now = 181 => id \in Range(sched.ids)
        /\ \A id \in Range(sched.ids) :
              objects[id].is_harvested /\ objects[id].respawn_time_seconds # None

\* C25 witness: at second 180 a scan has visited every object and returns
\* the bush harvested at 0, not the grass harvested at 61.
C25_Witness ==
    /\ sched.pc = "scan" /\ DOMAIN objects \subseteq sched.seen
    /\ now = 180
    /\ "bush_0_0_idx_0" \in Range(sched.ids)
    /\ "grass_0_0_idx_1" \notin Range(sched.ids)
    /\ objects["grass_0_0_idx_1"].is_harvested

\* C26: respawn_object(id) on an object of the registry leaves it with
\* is_harvested false and harvested_at None, every other field and every
\* other object as they were, and returns the object's network data; on an
\* unknown id it returns nothing and changes nothing. An initial_interest
\* that begins after the respawn and whose visible chunks hold the object's
\* chunk returns the object, unless it has been harvested again.
C26_RespawnShowsObject ==
    [][/\ \A id \in ObjectIds \cup {UnknownId} :
            RespawnCall(id) =>
               IF id \in DOMAIN objects
               THEN /\ objects' = [objects EXCEPT ![id].is_harvested = FALSE,
                                                  ![id].harvested_at = None]
                    /\ RespawnReply(objects, id) = Some(ToNetworkData(objects'[id]))
               ELSE /\ objects' = objects
                    /\ chunk_objects' = chunk_objects
                    /\ RespawnReply(objects, id) = None
       /\ \A t \in Tasks :
            InitialStore(t) =>
               \A c \in rd[t].new \cap DOMAIN chunk_objects :
                  \A id \in Range(chunk_objects[c]) :
                     ~objects[id].is_harvested =>
                        \E i \in 1..Len(rd[t].spawn) :
                           rd[t].spawn[i] = ToNetworkData(objects[id])]_vars

\* C26 witness: the rock was harvested and then respawned, an initial query
\* that began after the respawn has read its chunks, and its spawn message
\* holds the rock.
C26_Witness ==
    \E t \in Tasks :
        /\ rd[t].pc = "store" /\ rd[t].op = "initial"
        /\ hres.success /\ hres.object_id = "rock_5_0_idx_0"
        /\ ~objects["rock_5_0_idx_0"].is_harvested
        /\ objects["rock_5_0_idx_0"].harvested_at = None
        /\ \E i \in 1..Len(rd[t].spawn) : rd[t].spawn[i].object_id = "rock_5_0_idx_0"

\* C27: with the clock advancing and the respawn task taking its steps,
\* every object that is harvested, has a respawn time and comes due within
\* the clock's range is eventually not harvested, whatever the players'
\* interest sets are.
C27_HarvestedRespawns ==
    \A id \in ObjectIds :
        (/\ objects[id].is_harvested
         /\ objects[id].harvested_at # None
         /\ objects[id].respawn_time_seconds # None
         /\ objects[id].harvested_at[1] + objects[id].respawn_time_seconds[1] <= MaxTime)
        ~> ~objects[id].is_harvested

\* C27 witness: the grass has been harvested and has respawned while no
\* player has an interest set.
C27_Witness ==
    /\ hres.success /\ hres.object_id = "grass_0_0_idx_0"
    /\ ~objects["grass_0_0_idx_0"].is_harvested
    /\ objects["grass_0_0_idx_0"].harvested_at = None
    /\ player_chunks = <<>>
    /\ now = MaxTime

C29_IdsDisjoint ==
    LET Ids(i) == {made[i].objects[k].object_id : k \in DOMAIN made[i].objects}
    IN  /\ \A i \in DOMAIN made : Cardinality(Ids(i)) = Len(made[i].objects)
        /\ \A i, j \in DOMAIN made :
              Range(made[i].chunks) \cap Range(made[j].chunks) = {}
                 => Ids(i) \cap Ids(j) = {}

\* C29 witness: one generator has generated chunk (1,0), chunk (-1,0) and
\* the area of nine chunks around (0,0).
C29_Witness ==
    /\ Len(made) = 3
    /\ \A i \in DOMAIN made : made[i].gen = "g1"
    /\ made[1].chunks = << <<1, 0>> >>
    /\ made[2].chunks = << <<0 - 1, 0>> >>
    /\ Len(made[3].chunks) = 9
    /\ Len(made[3].objects) > Len(made[1].objects) + Len(made[2].objects)

\* C31: while add_object calls run beside interest queries, every id of
\* the chunk index, and every id a query has read from it and not yet
\* looked up, is a key of `objects`; and a reader's look-up of an id that
\* `objects` does not hold pushes nothing and keeps what it has collected.
C31_IndexedIdsAreObjects ==
    /\ \A c \in DOMAIN chunk_objects : Range(chunk_objects[c]) \subseteq DOMAIN objects
    /\ \A t \in Tasks :
          /\ Range(rd[t].ids) \subseteq DOMAIN objects
          /\ PushIfActive(rd[t].spawn, objects, UnknownId) = rd[t].spawn

\* C31 witness: an add_object of the tree has inserted the object and not
\* yet pushed its id, while a query is reading the ids of chunk (0,0)
\* after collecting an object.
C31_Witness ==
    /\ adding.pc = "second"
    /\ adding.object.object_id = "tree_0_0_idx_0"
    /\ "tree_0_0_idx_0" \in DOMAIN objects
    /\ "tree_0_0_idx_0" \notin Range(chunk_objects[<<0, 0>>])
    /\ \E t \in Tasks : rd[t].pc = "object" /\ rd[t].spawn # <<>>

\* C32: evict_oldest(N) on a cache of S entries lists min(N, S) keys of its
\* snapshot, none of them verified later than a key of the snapshot it keeps,
\* and each removal takes its key out of the cache and nothing else; an insert
\* undisturbed since it read the size has evicted min(N, S) entries. A cache
\* hit returns the entry and leaves the cache, verified_at included, as it was.
C32_EvictsOldestFirst ==
    [][ LET Oldest(v, n) ==
                /\ Len(v) = IF n < CacheSize THEN n ELSE CacheSize
                /\ \A i, j \in DOMAIN v : i # j => v[i] # v[j]
                /\ \A i \in DOMAIN v :
                      /\ v[i] \in DOMAIN tokens
                      /\ \A r \in DOMAIN tokens \ {v[j] : j \in DOMAIN v} :
                            tokens[v[i]].verified_at <= tokens[r].verified_at
            Removed(k, n0, n1) ==
                /\ tokens' = RemoveToken(tokens, k)
                /\ n1 = IF k \in DOMAIN tokens THEN n0 + 1 ELSE n0
        IN  /\ \A t \in Threads :
                /\ (th[t].pc = "evict" /\ th'[t].pc # "evict") =>
                      Oldest(th'[t].victims, EvictCount(MAX_CACHE_SIZE))
                /\ (th[t].pc = "evicting" /\ th'[t] # th[t]
                        /\ Len(th'[t].victims) < Len(th[t].victims)) =>
                      Removed(Head(th[t].victims), th[t].evicted, th'[t].evicted)
                /\ (th[t].pc = "evicting" /\ th'[t].pc = "put" /\ th[t].solo) =>
                      th'[t].evicted =
                          IF EvictCount(MAX_CACHE_SIZE) < th[t].size0
                          THEN EvictCount(MAX_CACHE_SIZE) ELSE th[t].size0
                /\ (th[t].pc = "get" /\ th'[t].pc = "done") =>
                      /\ tokens' = tokens
                      /\ th'[t].result.info = tokens[th[t].token]
            /\ (mgr.pc = "snapshot" /\ mgr'.pc # "snapshot") =>
                  Oldest(mgr'.todo, mgr.count)
            /\ (mgr.pc = "evicting" /\ mgr' # mgr
                    /\ Len(mgr'.todo) < Len(mgr.todo)) =>
                  Removed(Head(mgr.todo), mgr.evicted, mgr'.evicted) ]_vars

\* C32 witness: the manager's evict_oldest was given a count larger than the
\* cache and has removed every entry of its snapshot, more than one.
C32_Witness ==
    /\ mgr.pc = "sleep"
    /\ mgr.evicted > 1
    /\ CacheSize = 0

\* C33: on every inventory a behaviour reaches, and on the same inventory
\* with one slot carrying metadata, remove_item(item_id, qty) fails and
\* returns the inventory as it was when no slot has the item or the slot
\* holds fewer than qty; when it succeeds the slot held at least qty and now
\* holds exactly qty less, or is gone if that is 0, and every other slot is
\* as it was and in the same order.
C33_RemoveItemExact ==
    \A id \in DOMAIN entities :
        LET inv0 == entities[id].inventory
            Inputs == {inv0} \cup
                      {[inv0 EXCEPT !.items[i].metadata = Some("worn")] :
                          i \in DOMAIN inv0.items}
        IN  \A inv \in Inputs, item_id \in {<<"wood", 0>>, <<"ore", 0>>},
               quantity \in {0, 1, QuantityMax} :
                LET r    == InventoryRemoveItem(inv, item_id, quantity)
                    S    == {i \in DOMAIN inv.items : inv.items[i].item_id = item_id}
                    pos  == CHOOSE i \in S : \A j \in S : i <= j
                    held == IF S = {} THEN 0 ELSE inv.items[pos].quantity
                    n    == Len(inv.items)
                IN  /\ r.inv.max_slots = inv.max_slots
                    /\ (S = {} \/ held < quantity) => (~r.ok /\ r.inv = inv)
                    /\ r.ok =>
                         /\ S # {} /\ held >= quantity
                         /\ IF held = quantity
                            THEN /\ Len(r.inv.items) = n - 1
                                 /\ \A i \in 1..(n - 1) :
                                       r.inv.items[i] =
                                           inv.items[IF i < pos THEN i ELSE i + 1]
                            ELSE /\ Len(r.inv.items) = n
                                 /\ r.inv.items[pos].quantity = held - quantity
                                 /\ r.inv.items[pos].item_id = item_id
                                 /\ r.inv.items[pos].metadata = inv.items[pos].metadata
                                 /\ \A i \in 1..n :
                                       i # pos => r.inv.items[i] = inv.items[i]

\* C33 witness: a remove_item has failed on a player who holds some wood but
\* less than the largest quantity asked for, in front of another slot.
C33_Witness ==
    /\ eres.ret = "failed"
    /\ <<"user", 1>> \in DOMAIN entities
    /\ LET items == entities[<<"user", 1>>].inventory.items
       IN  /\ Len(items) = 2
           /\ items[1].item_id = <<"wood", 0>>
           /\ items[1].quantity = QuantityMax - 1
           /\ items[2].item_id = <<"ore", 0>>

\* C34: add_item(item_id, qty) on an inventory with max_slots > 0 that holds
\* max_slots slots, none of them a slot of this item without metadata, fails
\* and returns the inventory as it was; with such a slot it succeeds, the
\* first such slot holds qty more and the slots are otherwise as they were,
\* however full the inventory is.
C34_AddStacksOrRefuses ==
    \A id \in DOMAIN entities :
        LET inv0 == entities[id].inventory
            Inputs == {inv0} \cup
                      {[inv0 EXCEPT !.items[i].metadata = Some("worn")] :
                          i \in DOMAIN inv0.items}
        IN  \A inv \in Inputs, item_id \in {<<"wood", 0>>, <<"ore", 0>>},
               quantity \in {0, 1, QuantityMax}, wraps \in BOOLEAN :
                LET r   == InventoryAddItem(inv, item_id, quantity, wraps)
                    S   == {i \in DOMAIN inv.items :
                              /\ inv.items[i].item_id = item_id
                              /\ inv.items[i].metadata = None}
                    pos == CHOOSE i \in S : \A j \in S : i <= j
                IN  /\ (S = {} /\ inv.max_slots > 0
                            /\ Len(inv.items) >= inv.max_slots) =>
                          (~r.ok /\ ~r.panicked /\ r.inv = inv)
                    /\ S # {} =>
                          /\ r.ok /\ ~r.panicked
                          /\ r.inv = [inv EXCEPT !.items[pos].quantity =
                                                    inv.items[pos].quantity + quantity]

\* C35: with no other call between its scan and its last removal,
\* cleanup_stale_entities collects, each once, exactly the ids whose
\* last_seen lies more than stale_timeout back and returns that list; each
\* removal takes one of them, stale as it goes, and leaves every other
\* entity as it was; when the call returns no entity older than the timeout
\* is left. The last_seen of an entity changes only in update_position,
\* update_health or a creation under its id.
C35_CleanupRemovesStale ==
    [][ LET Overdue(e) == instant - e.last_seen > StaleTimeout
        IN  /\ (sweep.pc = "idle" /\ sweep' # sweep) =>
                  /\ {sweep'.ids[i] : i \in DOMAIN sweep'.ids} =
                        {id \in DOMAIN entities : Overdue(entities[id])}
                  /\ \A i, j \in DOMAIN sweep'.ids :
                        sweep'.ids[i] = sweep'.ids[j] => i = j
                  /\ entities' = entities
            /\ (sweep.pc = "removing" /\ sweep' # sweep) =>
                  LET id == sweep.ids[sweep.next]
                  IN  /\ id \in DOMAIN entities
                      /\ Overdue(entities[id])
                      /\ DOMAIN entities' = DOMAIN entities \ {id}
                      /\ \A x \in DOMAIN entities' : entities'[x] = entities[x]
                      /\ sweep'.pc = "idle" =>
                            \A x \in DOMAIN entities' : ~Overdue(entities'[x])
            /\ \A id \in DOMAIN entities \cap DOMAIN entities' :
                  entities'[id].last_seen # entities[id].last_seen =>
                      \/ UpdatePosition(id, Pos(1, 0, 0))
                      \/ UpdateHealth(id, 50)
                      \/ AddPlayer(id, Some("mail"))
                      \/ AddNpc(id)
                      \/ AddEnemy(id)
                      \/ AddBoss(id, 50) ]_vars

\* C35 witness: a cleanup has removed the first of the stale entities it
\* collected and goes on to the next, an entity seen within the timeout
\* standing by.
C35_Witness ==
    /\ sweep.pc = "removing"
    /\ sweep.next = 2
    /\ sweep.ids[1] \notin DOMAIN entities
    /\ sweep.ids[2] \in DOMAIN entities
    /\ \E x \in DOMAIN entities :
          /\ instant - entities[x].last_seen <= StaleTimeout
          /\ instant - entities[x].last_seen > 0

\* C37: whenever cleanup_stale_entities is about to remove an entity, at
\* that moment the entity's last_seen lies more than stale_timeout back,
\* whatever calls have run since the scan.
C37_RemovedIsStale ==
    (sweep.pc = "removing" /\ sweep.ids[sweep.next] \in DOMAIN entities) =>
        IsStale(entities[sweep.ids[sweep.next]])

\* C36: a harvest request from within range succeeds exactly when the
\* object is not harvested at that moment, and otherwise answers "Already
\* harvested" and changes nothing; a success takes the object from not
\* harvested to harvested, an object becomes harvested only by the request
\* just answered with success, and it becomes harvestable again only by the
\* scheduler's respawn step. So of the requests for one object between two
\* respawns, from whatever players, one succeeds.
C36_OneHarvestPerCycle ==
    [][ /\ \A p \in Players, id \in ObjectIds, pos \in HarvestPositions :
              (HandleHarvestRequest(p, id, pos)
                  /\ ~TooFar(objects[id].position, pos)) =>
                 IF objects[id].is_harvested
                 THEN /\ ~hres'.success
                      /\ ErrorKind(hres') = "Already harvested"
                      /\ objects' = objects
                 ELSE /\ hres'.success
                      /\ hres'.player_id = p
                      /\ objects'[id].is_harvested
        /\ \A id \in DOMAIN objects :
              /\ (~objects[id].is_harvested /\ objects'[id].is_harvested) =>
                    /\ hres'.success
                    /\ hres'.object_id = id
              /\ (objects[id].is_harvested /\ ~objects'[id].is_harvested) =>
                    /\ sched.pc = "respawn"
                    /\ Head(sched.ids) = id
                    /\ hres' = hres ]_vars

\* C36 witness: the other player's request for the grass, from within range,
\* was answered "Already harvested" after the first player's had succeeded.
C36_Witness ==
    /\ hres.player_id = "p2"
    /\ hres.object_id = "grass_0_0_idx_0"
    /\ hres.request_position = Pos(15, 0, 25)
    /\ ErrorKind(hres) = "Already harvested"
    /\ objects["grass_0_0_idx_0"].is_harvested

\* C39: a successful harvest stamps the object with the clock's reading, and
\* whenever a step makes a harvested object harvestable again the clock
\* stands at least the object's respawn time past that stamp, whatever
\* requests ran between the scheduler's collecting the id and the respawn.
C39_NeverRespawnsEarly ==
    [][ \A id \in DOMAIN objects :
          /\ (~objects[id].is_harvested /\ objects'[id].is_harvested) =>
                objects'[id].harvested_at = Some(now)
          /\ (objects[id].is_harvested /\ ~objects'[id].is_harvested) =>
                /\ IsSome(objects[id].harvested_at)
                /\ IsSome(objects[id].respawn_time_seconds)
                /\ now - Unwrap(objects[id].harvested_at)
                      >= Unwrap(objects[id].respawn_time_seconds) ]_vars

\* C39 witness: the grass was harvested, the last request answered being
\* that success, and the scheduler has since made it harvestable again with
\* the rock's id still on its list.
C39_Witness ==
    /\ hres.success
    /\ hres.object_id = "grass_0_0_idx_0"
    /\ ~objects["grass_0_0_idx_0"].is_harvested
    /\ objects["rock_5_0_idx_0"].is_harvested
    /\ now >= Unwrap(World[1].respawn_time_seconds)

\* C40: a step that answers a harvest request leaves the chunk index and
\* every player's interest set as they were; when the answer is a failure,
\* of whatever kind, the objects are as they were too, and when it is a
\* success the objects differ from before only in the target's is_harvested
\* and harvested_at.
C40_HarvestFrame ==
    [][ hres' # hres =>
          /\ chunk_objects' = chunk_objects
          /\ player_chunks' = player_chunks
          /\ IF hres'.success
             THEN /\ DOMAIN objects' = DOMAIN objects
                  /\ hres'.object_id \in DOMAIN objects
                  /\ \A x \in DOMAIN objects :
                        objects'[x] =
                            IF x = hres'.object_id
                            THEN [objects[x] EXCEPT
                                    !.is_harvested = objects'[x].is_harvested,
                                    !.harvested_at = objects'[x].harvested_at]
                            ELSE objects[x]
             ELSE objects' = objects ]_vars

\* C40 witness: with the player's interest set stored, a request for the
\* rock was refused as too far after the grass had been harvested.
C40_Witness ==
    /\ ~hres.success
    /\ hres.object_id = "rock_5_0_idx_0"
    /\ ErrorKind(hres) = "Too far"
    /\ "p1" \in DOMAIN player_chunks
    /\ objects["grass_0_0_idx_0"].is_harvested
    /\ ~objects["rock_5_0_idx_0"].is_harvested

\* C38: an update_player_chunks for p that began while p was tracked and
\* stores its chunks after remove_player(p), no other interest call for p
\* being under way, leaves p without an entry in player_chunks, so that
\* get_players_in_chunk names p for no chunk.
C38_RemovedStaysRemoved ==
    [][ \A t \in Tasks :
          LET p == rd[t].player
          IN  (/\ rd[t].pc = "store" /\ rd[t].op = "update"
               /\ rd'[t].pc # "store"
               /\ rd[t].old # {}
               /\ p \notin DOMAIN player_chunks
               /\ \A u \in Tasks \ {t} :
                     rd[u].player = p => rd[u].pc \in {"idle", "done"}) =>
                  /\ p \notin DOMAIN player_chunks'
                  /\ \A c \in TrackedChunks :
                        \A q \in DOMAIN player_chunks' :
                            c \in player_chunks'[q] => q # p ]_vars

============================================================================
